---- MODULE Spec2Model ----
(***************************************************************************)
(* State-machine model of hb-hue-tools:                                    *)
(*   - HueClient (lib/HueClient.js): the PUT throttle (waitForIt / '_go'), *)
(*     get / put / post / delete, the router of get, the v1 / v2 request   *)
(*     executors with their resend loop and v1 response handling, and      *)
(*     getApiKey with the setter of apiKey;                                *)
(*   - EventStreamClient (lib/EventStreamClient.js): listen / close and    *)
(*     the reconnect after a closed socket; init, the 'data' handler and   *)
(*     the decoders _parseContainer, _parseUpdate1 and _parseUpdate2;      *)
(*   - HueDiscovery (lib/HueDiscovery.js): discover and its jobs.          *)
(* The specifications share the variables: ThrottleSpec, PutSpec (with     *)
(* FairPutSpec) and ClientSpec (calls on the throttle), RequestSpec (with  *)
(* FairRequestSpec), GetSpec, RaceSpec and KeySpec (one call through the   *)
(* executors), StreamSpec (with FairStreamSpec), DecodeSpec, UpdateSpec    *)
(* and PairSpec (the event stream decoder), DiscoverySpec (one discover    *)
(* call), EstimateSpec (numberOfZigbeeMessages).                           *)
(***************************************************************************)
EXTENDS Integers, Sequences, FiniteSets, TLC

(***************************************************************************)
(* Bounds of the model.                                                    *)
(***************************************************************************)
\* number of put / post / delete calls made on one client
MaxCalls == 3

\* number of streaming requests an EventStreamClient opens, those still to be
\* opened by a pending reconnect included
MaxRequests == 4

\* number of items of a v1 batch response
MaxItems == 2

(***************************************************************************)
(* Strings.  A resource string is modelled as the sequence of its tokens,  *)
(* "/" being a token of its own: "/groups/1/action" is                     *)
(* <<"/", "groups", "/", "1", "/", "action">>.                             *)
(***************************************************************************)
Slash == "/"

\* name.slice(1) for the names that head a resource without a leading "/"
NameTail == [lights |-> "ights", xlights |-> "lights"]

\* resource.slice(1): the first character is dropped, a "/" or the first
\* letter of a name (of one of the names of NameTail)
Slice1(s) ==
  IF s = <<>> THEN <<>>
  ELSE IF Head(s) = Slash \/ Head(s) \notin DOMAIN NameTail THEN Tail(s)
  ELSE <<NameTail[Head(s)]>> \o Tail(s)

\* s.split('/') on a token sequence in which names are separated by "/"
RECURSIVE SplitSlash(_)
SplitSlash(s) ==
  IF s = <<>> THEN <<"">>
  ELSE IF Head(s) = Slash THEN <<"">> \o SplitSlash(Tail(s))
  ELSE IF Len(s) = 1 THEN <<Head(s)>>
  ELSE <<Head(s)>> \o SplitSlash(SubSeq(s, 3, Len(s)))

\* resource.startsWith('/groups')
StartsWithGroups(resource) ==
  /\ Len(resource) >= 2
  /\ resource[1] = Slash
  /\ resource[2] = "groups"

apiV1Resources ==
  {"capabilities", "config", "info", "lights", "groups", "schedules",
   "scenes", "sensors", "rules", "resourcelinks"}

\* apiV1Resources.includes(resource.slice(1).split('/')[0])
IsApiV1Resource(resource) == SplitSlash(Slice1(resource))[1] \in apiV1Resources

V2Path == <<"/", "clip", "/", "v2", "/", "resource">>

(***************************************************************************)
(* Bodies.  A body is the set of its keys (Object.keys(body)); defined is  *)
(* FALSE for a call made without a body argument.                          *)
(***************************************************************************)
NoBody == [defined |-> FALSE, keys |-> {}]

Body(keys) == [defined |-> TRUE, keys |-> keys]

numberOfZigbeeMessagesNoFloor(body) ==
  LET keys == IF body.defined THEN body.keys ELSE {} IN
  (IF "on" \in keys THEN 1 ELSE 0)
    + (IF {"bri", "bri_inc"} \cap keys # {} THEN 1 ELSE 0)
    + (IF {"xy", "ct", "hue", "sat", "effect"} \cap keys # {} THEN 1 ELSE 0)

numberOfZigbeeMessages(body) ==
  LET keys == IF body.defined THEN body.keys ELSE {}
      n1 == IF "on" \in keys THEN 1 ELSE 0
      n2 == IF "bri" \in keys \/ "bri_inc" \in keys THEN 1 ELSE 0
      n3 == IF \/ "xy" \in keys \/ "ct" \in keys \/ "hue" \in keys
               \/ "sat" \in keys \/ "effect" \in keys
            THEN 1 ELSE 0
      n == n1 + n2 + n3
  IN  IF n = 0 THEN 1 ELSE n

(***************************************************************************)
(* Inputs of the throttle model.                                           *)
(***************************************************************************)
Calls == 1 .. MaxCalls

WriteResources ==
  { <<"/", "lights", "/", "1", "/", "state">>,
    <<"/", "groups", "/", "1", "/", "action">>,
    <<"/", "light", "/", "a">> }

\* bodies of put: one and two Zigbee messages
PutBodies == { Body({"on"}), Body({"bri", "xy"}) }

\* resources of post and delete: one of each generation
PostResources ==
  { <<"/", "lights">>, <<"/", "light", "/", "a">> }

\* params.waitTimePut is an integer in 0 .. 50, params.waitTimePutGroup in 0 .. 1000
WaitTimePutValues == {0, 50}

WaitTimePutGroupValues == {0, 1000}

NoCall == [method |-> "none", resource |-> <<>>, body |-> NoBody]

VARIABLES
  \* ---- HueClient: throttle, put / post / delete
  waitTimePut,      \* this._options.waitTimePut
  waitTimePutGroup, \* this._options.waitTimePutGroup
  apiPath,          \* this._options.path
  waitForIt,        \* this.waitForIt: the gate is closed
  goTimers,         \* pending setTimeout callbacks of put: [owner, delay]
  goListeners,      \* calls suspended in `await once(this, '_go')`, in order
  microtasks,       \* calls whose once() promise has settled, not yet resumed
  callPc,           \* per call: "idle", "waiting", "woken", "issued",
                    \* "invalid" (get threw at line 325)
  call,             \* per call: [method, resource, body]
  path,             \* this.path: the base path of the next transmission
  issueLog,         \* per call: the gate as the call found it when it issued,
                    \* the executor and the base path it issued with
  released          \* the calls woken by the latest '_go'

VARIABLES
  \* ---- EventStreamClient: listen / close
  retryTime,    \* this.options.retryTime, in seconds
  esRequest,    \* this.request: 0 (deleted) or the number of a request
  reqState,     \* per streaming request opened: "pending" (no socket yet),
                \* "socket", "response" (streaming), "closing" (destroyed,
                \* the 'close' of its socket still to come), "closed"
  listening,    \* this.listening
  retryWait,    \* close(true) invocations suspended in timeout(retryTime)
  userClosed,   \* the caller has called close() and not listen() since
  socketCloses, \* socket 'close' events handled so far
  autoListens   \* listen() calls made by close(true) so far

VARIABLES
  \* ---- HueClient: request / request2, one call from start to end
  waitTimeResend, \* this._options.waitTimeResend
  rq,             \* the call: [method, resource, body]
  rqPc,           \* "idle", "inflight", "resendWait", "returned", "thrown"
  rqExecutor,     \* 1: request handles the attempt, 2: request2
  rqRetry,        \* the retry argument of the attempt
  nSent,          \* transmissions (super.request) made for the call
  lastSent,       \* the latest transmission: [method, resource, body, appKey]
  lastResponse,   \* what the latest transmission was answered with
  lastErr,        \* the error the latest attempt caught
  firstErr,       \* the error the first attempt caught
  envelope,       \* response.errors / success / body of the latest attempt
  emitted,        \* 'error' events emitted during the latest attempt
  retryEvents,    \* resend diagnostics (line 646 / 687) emitted for the call
  sentPath,       \* this.path as the latest transmission of the call found
                  \* it: the base path that transmission was sent to
  clientPath      \* this.path, as the latest call on the client has set it

VARIABLES
  \* ---- HueClient: get, one call from start to end
  getPc,     \* "idle", "awaiting" (in `await request(...)`), "returned", "thrown"
  getArg,    \* the resource get was called with
  getRoute,  \* [executor, path, resource, remainder] after the switch
  getResult, \* the value get returned
  getErr     \* the error get threw

VARIABLES
  \* ---- EventStreamClient: init, the 'data' handler of a response
  version,    \* this.options.version
  raw,        \* this.options.raw
  buttonMap,  \* this.buttonMap: [built, m], m from button id to base code
  initPc,     \* per init() call: "idle", "awaiting" (in `await get('/button')`),
              \* "done", "failed" (get threw)
  buttonGets, \* client.get('/button') calls made so far
  toSend,     \* the text the bridge has still to send on the stream
  received,   \* the text received so far, all chunks
  buf,        \* s, the buffer of the 'data' handler
  esEvents,   \* the events emitted by the 'data' handler, in order
  decoded     \* the arguments JSON.parse was called with, in order

VARIABLES
  \* ---- HueDiscovery: one discover() call
  dPc,          \* "idle", "running" (in the loop over this.jobs), "returned",
                \* "thrown"
  bridgeMap,    \* this.bridgeMap (the object discover returns): per host
                \* [kind, of]: nothing, the bridge id of, or the config of
  jobs,         \* this.jobs: [kind, host, state], state "pending", "resolved"
                \* or "rejected"
  loopIndex,    \* the index of the job the loop of discover awaits
  foundBy,      \* per host: the search methods that have found it
  verification  \* per host: the outcome of its latest config() call

VARIABLES
  \* ---- numberOfZigbeeMessages, one call
  estimateBody, \* the body it is called with
  estimate      \* the number it returned; -1 before the call

VARIABLES
  \* ---- HueClient: the API key and getApiKey
  apiKey,      \* this._options.apiKey: a key, "undefined" or "null"
  headers,     \* the hue-application-key of this._options.headers: a key,
               \* "undefined", "null", or "absent" (no headers object)
  optionsPath, \* this._options.path, as the constructor and the setter of
               \* apiKey leave it (apiPath where getApiKey is not called)
  keyPc,       \* getApiKey: "idle", "awaiting" (in `await request(...)`),
               \* "returned", "thrown", "invalid" (threw at line 467)
  savedKey,    \* const apiKey of getApiKey, line 469
  keyResult    \* what getApiKey returned

requestVars ==
  << waitTimeResend, rq, rqPc, rqExecutor, rqRetry, nSent, lastSent,
     lastResponse, lastErr, firstErr, envelope, emitted, retryEvents,
     sentPath, clientPath >>

getVars == << getPc, getArg, getRoute, getResult, getErr >>

throttleVars ==
  << waitTimePut, waitTimePutGroup, apiPath, waitForIt, goTimers, goListeners,
     microtasks, callPc, call, path, issueLog, released >>

streamVars ==
  << retryTime, esRequest, reqState, listening, retryWait, userClosed,
     socketCloses, autoListens >>

decodeVars ==
  << version, raw, buttonMap, initPc, buttonGets, toSend, received, buf,
     esEvents, decoded >>

discoveryVars ==
  << dPc, bridgeMap, jobs, loopIndex, foundBy, verification >>

estimateVars == << estimateBody, estimate >>

keyVars == << apiKey, headers, optionsPath, keyPc, savedKey, keyResult >>

vars ==
  << throttleVars, streamVars, requestVars, getVars, decodeVars,
     discoveryVars, estimateVars, keyVars >>

nonThrottleVars ==
  << streamVars, requestVars, getVars, decodeVars, discoveryVars,
     estimateVars, keyVars >>

nonStreamVars ==
  << throttleVars, requestVars, getVars, decodeVars, discoveryVars,
     estimateVars, keyVars >>

nonRequestVars ==
  << throttleVars, streamVars, getVars, decodeVars, discoveryVars,
     estimateVars, keyVars >>

\* get drives request / request2
nonGetVars ==
  << throttleVars, streamVars, decodeVars, discoveryVars,
     estimateVars, keyVars >>

nonDecodeVars ==
  << throttleVars, streamVars, requestVars, getVars, discoveryVars,
     estimateVars, keyVars >>

nonDiscoveryVars ==
  << throttleVars, streamVars, requestVars, getVars, decodeVars, estimateVars, keyVars >>

nonEstimateVars ==
  << throttleVars, streamVars, requestVars, getVars, decodeVars,
     discoveryVars, keyVars >>

\* getApiKey drives request
nonKeyVars ==
  << throttleVars, streamVars, getVars, decodeVars, discoveryVars,
     estimateVars >>

NotIssued ==
  [issued |-> FALSE, gateClosed |-> FALSE, windows |-> 0, generation |-> 0,
   path |-> <<>>]

InitThrottle ==
  /\ waitTimePut \in WaitTimePutValues
  /\ waitTimePutGroup \in WaitTimePutGroupValues
  /\ apiPath = <<"/", "api", "/", "key">>
  /\ waitForIt = FALSE
  /\ goTimers = {}
  /\ goListeners = <<>>
  /\ microtasks = <<>>
  /\ callPc = [c \in Calls |-> "idle"]
  /\ call = [c \in Calls |-> NoCall]
  /\ path = <<>>
  /\ issueLog = [c \in Calls |-> NotIssued]
  /\ released = {}

\* put, line 400 written without the test of line 401: every put held by
\* waitTimePut
PutTimeoutNoGroup(resource, body) == numberOfZigbeeMessages(body) * waitTimePut

\* put, line 400: the hold of the gate, in milliseconds
PutTimeout(resource, body) ==
  numberOfZigbeeMessages(body) *
    (IF StartsWithGroups(resource) THEN waitTimePutGroup ELSE waitTimePut)

\* put / post / delete: the base path and request method by generation
BasePath(resource) == IF IsApiV1Resource(resource) THEN apiPath ELSE V2Path

Generation(resource) == IF IsApiV1Resource(resource) THEN 1 ELSE 2

\* the record of call c passing on to request / request2
Issue(c, cl) ==
  /\ callPc' = [callPc EXCEPT ![c] = "issued"]
  /\ path' = BasePath(cl.resource)
  /\ issueLog' = [issueLog EXCEPT ![c] =
       [issued |-> TRUE, gateClosed |-> waitForIt,
        windows |-> Cardinality(goTimers),
        generation |-> Generation(cl.resource),
        path |-> BasePath(cl.resource)]]

\* put, lines 400-418: the part of put behind the gate
PassGate(c, cl) ==
  LET timeout == PutTimeout(cl.resource, cl.body) IN
  /\ IF timeout > 0
       THEN /\ waitForIt' = TRUE
            /\ goTimers' = goTimers \cup {[owner |-> c, delay |-> timeout]}
       ELSE UNCHANGED <<waitForIt, goTimers>>
  /\ Issue(c, cl)

\* put, line 393: the call finds the gate closed
GateClosedAtCallNever == FALSE

GateClosedAtCall == waitForIt

\* put, line 394: a resumed call finds the gate closed and waits again
MustWaitAgainOnce == FALSE

MustWaitAgain == waitForIt

\* calls are numbered in the order in which the caller makes them
NextCall(c) ==
  /\ callPc[c] = "idle"
  /\ \A d \in Calls : d < c => callPc[d] # "idle"

\* put(resource, body), up to its first suspension
Put(c, resource, body) ==
  LET cl == [method |-> "PUT", resource |-> resource, body |-> body] IN
  /\ microtasks = <<>>
  /\ NextCall(c)
  /\ call' = [call EXCEPT ![c] = cl]
  /\ IF GateClosedAtCall
       THEN /\ callPc' = [callPc EXCEPT ![c] = "waiting"]
            /\ goListeners' = Append(goListeners, c)
            /\ UNCHANGED <<waitForIt, goTimers, path, issueLog>>
       ELSE /\ PassGate(c, cl)
            /\ UNCHANGED goListeners
  /\ UNCHANGED <<waitTimePut, waitTimePutGroup, apiPath, microtasks, released>>
  /\ UNCHANGED nonThrottleVars

\* post / delete written after put: holding the gate like a put
PostOrDeleteHolding(c, method, resource, body) ==
  LET cl == [method |-> method, resource |-> resource, body |-> body] IN
  /\ microtasks = <<>>
  /\ NextCall(c)
  /\ call' = [call EXCEPT ![c] = cl]
  /\ PassGate(c, cl)
  /\ UNCHANGED <<waitTimePut, waitTimePutGroup, apiPath, goListeners,
                 microtasks, released>>
  /\ UNCHANGED nonThrottleVars

\* post(resource, body) and delete(resource, body)
PostOrDelete(c, method, resource, body) ==
  LET cl == [method |-> method, resource |-> resource, body |-> body] IN
  /\ microtasks = <<>>
  /\ NextCall(c)
  /\ call' = [call EXCEPT ![c] = cl]
  /\ Issue(c, cl)
  /\ UNCHANGED <<waitTimePut, waitTimePutGroup, apiPath, waitForIt, goTimers,
                 goListeners, microtasks, released>>
  /\ UNCHANGED nonThrottleVars

\* put, lines 407-410 written without line 408: '_go' is emitted with the gate
\* left closed
GoTimerKeepsGate(t) ==
  /\ microtasks = <<>>
  /\ t \in goTimers
  /\ goTimers' = goTimers \ {t}
  /\ microtasks' = goListeners
  /\ goListeners' = <<>>
  /\ callPc' = [c \in Calls |->
       IF callPc[c] = "waiting" THEN "woken" ELSE callPc[c]]
  /\ released' = {goListeners[i] : i \in 1 .. Len(goListeners)}
  /\ UNCHANGED <<waitTimePut, waitTimePutGroup, apiPath, waitForIt, call, path,
                 issueLog>>
  /\ UNCHANGED nonThrottleVars

\* put, lines 407-410: the timer callback reopens the gate and emits '_go';
\* every pending once() promise resolves, in the order of registration
GoTimer(t) ==
  /\ microtasks = <<>>
  /\ t \in goTimers
  /\ goTimers' = goTimers \ {t}
  /\ waitForIt' = FALSE
  /\ microtasks' = goListeners
  /\ goListeners' = <<>>
  /\ callPc' = [c \in Calls |->
       IF callPc[c] = "waiting" THEN "woken" ELSE callPc[c]]
  /\ released' = {goListeners[i] : i \in 1 .. Len(goListeners)}
  /\ UNCHANGED <<waitTimePut, waitTimePutGroup, apiPath, call, path, issueLog>>
  /\ UNCHANGED nonThrottleVars

\* request, line 622 / 646: an 'error' event of the client rejects every
\* pending once() promise; put swallows the rejection (line 397) and loops
ErrorEvent ==
  /\ microtasks = <<>>
  /\ goListeners # <<>>
  /\ microtasks' = goListeners
  /\ goListeners' = <<>>
  /\ callPc' = [c \in Calls |->
       IF callPc[c] = "waiting" THEN "woken" ELSE callPc[c]]
  /\ UNCHANGED <<waitTimePut, waitTimePutGroup, apiPath, waitForIt, goTimers,
                 call, path, issueLog, released>>
  /\ UNCHANGED nonThrottleVars

\* put, lines 394-399: the next settled call resumes in the while loop
Resume ==
  /\ microtasks # <<>>
  /\ LET c == Head(microtasks) IN
       /\ microtasks' = Tail(microtasks)
       /\ IF MustWaitAgain
            THEN /\ callPc' = [callPc EXCEPT ![c] = "waiting"]
                 /\ goListeners' = Append(goListeners, c)
                 /\ UNCHANGED <<waitForIt, goTimers, path, issueLog>>
            ELSE /\ PassGate(c, call[c])
                 /\ UNCHANGED goListeners
  /\ UNCHANGED <<waitTimePut, waitTimePutGroup, apiPath, call, released>>
  /\ UNCHANGED nonThrottleVars

NextThrottle ==
  \/ \E c \in Calls, r \in WriteResources, b \in PutBodies : Put(c, r, b)
  \/ \E c \in Calls, m \in {"POST", "DELETE"}, r \in PostResources :
        PostOrDelete(c, m, r, NoBody)
  \/ \E t \in goTimers : GoTimer(t)
  \/ ErrorEvent
  \/ Resume

(***************************************************************************)
(* EventStreamClient: listen(), close() and the socket 'close' handler.    *)
(***************************************************************************)
\* params.retryTime is an integer in 0 .. 120
RetryTimeValues == {0, 10}

InitStream ==
  /\ retryTime \in RetryTimeValues
  /\ esRequest = 0
  /\ reqState = <<>>
  /\ listening = FALSE
  /\ retryWait = 0
  /\ userClosed = FALSE
  /\ socketCloses = 0
  /\ autoListens = 0

Requests == 1 .. Len(reqState)

ClosingCount == Cardinality({r \in Requests : reqState[r] = "closing"})

\* every request opened, and every request a pending reconnect or a pending
\* socket 'close' may still open, is within the bound
Bounded == Len(reqState) + retryWait + ClosingCount <= MaxRequests

\* request.destroy(): the socket of a request that has one is destroyed and
\* emits 'close' later; a request without a socket yet never emits 'socket'
Destroyed(st) ==
  CASE st = "pending" -> "closed"
    [] st \in {"socket", "response"} -> "closing"
    [] OTHER -> st

\* close, line 169: close waits and listens again
RetryWantedAlways(retry) == retry

RetryWanted(retry) == retry /\ retryTime > 0

\* listen(): opens a streaming request and keeps it in this.request
ListenBody ==
  /\ reqState' = Append(reqState, "pending")
  /\ esRequest' = Len(reqState) + 1

\* close(retry), up to its suspension in timeout(); states is reqState as the
\* event being handled leaves it
CloseBody(retry, states) ==
  /\ IF esRequest # 0
       THEN /\ reqState' = [states EXCEPT ![esRequest] = Destroyed(@)]
            /\ esRequest' = 0
       ELSE /\ reqState' = states
            /\ esRequest' = esRequest
  /\ listening' = FALSE
  /\ retryWait' = IF RetryWanted(retry) THEN retryWait + 1 ELSE retryWait

\* the caller calls listen()
Listen ==
  /\ ListenBody
  /\ userClosed' = FALSE
  /\ UNCHANGED <<retryTime, listening, retryWait, socketCloses, autoListens>>
  /\ UNCHANGED nonStreamVars
  /\ Bounded'

\* listen, lines 102-111: the request is given its socket; the handler of
\* the socket's 'close' event is registered on the socket
SocketEvent(r) ==
  /\ reqState[r] = "pending"
  /\ reqState' = [reqState EXCEPT ![r] = "socket"]
  /\ UNCHANGED <<retryTime, esRequest, listening, retryWait, userClosed,
                 socketCloses, autoListens>>
  /\ UNCHANGED nonStreamVars

\* listen, lines 112-123: the response arrives
Response(r) ==
  /\ reqState[r] = "socket"
  /\ reqState' = [reqState EXCEPT ![r] = "response"]
  /\ listening' = TRUE
  /\ UNCHANGED <<retryTime, esRequest, retryWait, userClosed, socketCloses,
                 autoListens>>
  /\ UNCHANGED nonStreamVars

\* listen, lines 106-110: the socket of request r closes, because the
\* connection is lost or because the request was destroyed; the handler
\* calls close(true)
SocketClose(r) ==
  /\ reqState[r] \in {"socket", "response", "closing"}
  /\ CloseBody(TRUE, [reqState EXCEPT ![r] = "closed"])
  /\ socketCloses' = socketCloses + 1
  /\ UNCHANGED <<retryTime, userClosed, autoListens>>
  /\ UNCHANGED nonStreamVars
  /\ Bounded'

\* the caller calls close()
Close ==
  /\ CloseBody(FALSE, reqState)
  /\ userClosed' = TRUE
  /\ UNCHANGED <<retryTime, socketCloses, autoListens>>
  /\ UNCHANGED nonStreamVars
  /\ Bounded'

\* close, lines 170-171: the retry delay is over, close(true) calls listen()
RetryTimer ==
  /\ retryWait > 0
  /\ retryWait' = retryWait - 1
  /\ ListenBody
  /\ autoListens' = autoListens + 1
  /\ UNCHANGED <<retryTime, listening, userClosed, socketCloses>>
  /\ UNCHANGED nonStreamVars

NextStream ==
  \/ Listen
  \/ \E r \in Requests : SocketEvent(r)
  \/ \E r \in Requests : Response(r)
  \/ \E r \in Requests : SocketClose(r)
  \/ Close
  \/ RetryTimer

(***************************************************************************)
(* HueClient.request and request2: transmission, v1 response handling and  *)
(* the resend loop.                                                        *)
(***************************************************************************)
nonCriticalApiErrorTypes == {6, 7, 8, 201}

\* request, line 616, with a type missing from the list
IsNonCriticalShort(type) == type \in {6, 7, 8}

\* request, line 616, with a critical type added to the list
IsNonCriticalWide(type) == type \in {1, 6, 7, 8, 201}

\* request, line 616: nonCriticalApiErrorTypes.includes(error.type)
IsNonCritical(type) == type \in nonCriticalApiErrorTypes

\* the retry budget of request, line 644, and request2, line 685
MaxResend == 5

\* params.waitTimeResend is an integer in 0 .. 1000
WaitTimeResendValues == {0, 300}

\* Errors.  statusCode 0, type 0 and code "" stand for an absent property.
NoError ==
  [name |-> "none", code |-> "", statusCode |-> 0, type |-> 0,
   hasRequest |-> FALSE]

HttpError(code, statusCode, hasRequest) ==
  [name |-> "HttpError", code |-> code, statusCode |-> statusCode, type |-> 0,
   hasRequest |-> hasRequest]

\* request, lines 612-616: the error made of an error item; response.request
\* is the request of the response
ApiError(type) ==
  [name |-> "Error", code |-> "", statusCode |-> 0, type |-> type,
   hasRequest |-> TRUE]

\* reading a property of null or undefined
TypeError ==
  [name |-> "TypeError", code |-> "", statusCode |-> 0, type |-> 0,
   hasRequest |-> FALSE]

\* Maps (JavaScript objects): functions from keys to values
EmptyMap == [k \in {} |-> ""]

MapSet(m, k, v) == [x \in DOMAIN m \cup {k} |-> IF x = k THEN v ELSE m[x]]

Last(seq) == seq[Len(seq)]

\* Items of a v1 response: error is the type of the error object (0: the item
\* has none), success the entries of the success object in key order, null an
\* item that is no object
ErrorItem(type) == [null |-> FALSE, error |-> type, success |-> <<>>]

SuccessItem(entries) == [null |-> FALSE, error |-> 0, success |-> entries]

NullItem == [null |-> TRUE, error |-> 0, success |-> <<>>]

PathOn1 == <<"/", "lights", "/", "1", "/", "state", "/", "on">>

PathBri1 == <<"/", "lights", "/", "1", "/", "state", "/", "bri">>

PathOn2 == <<"/", "lights", "/", "2", "/", "state", "/", "on">>

ApiErrorTypes == {1, 6, 7, 8, 201, 901}

Items ==
  {ErrorItem(t) : t \in ApiErrorTypes} \cup
  { SuccessItem(<< <<PathOn1, "true">> >>),
    SuccessItem(<< <<PathBri1, "100">> >>),
    SuccessItem(<< <<PathOn2, "false">> >>),
    SuccessItem(<< <<PathOn1, "true">>, <<PathBri1, "100">> >>),
    [null |-> FALSE, error |-> 7, success |-> << <<PathBri1, "100">> >>],
    NullItem }

RECURSIVE SeqsUpTo(_, _)
SeqsUpTo(S, n) ==
  IF n = 0 THEN {<<>>}
  ELSE LET shorter == SeqsUpTo(S, n - 1) IN
       shorter \cup {Append(q, x) : q \in {r \in shorter : Len(r) = n - 1}, x \in S}

\* JSON values: an object or array is its map from keys to values (the keys
\* of an array are "0", "1", ...), a number, boolean or string is its text
JUndef == [t |-> "undefined", v |-> "", m |-> EmptyMap]

JNull == [t |-> "null", v |-> "", m |-> EmptyMap]

JVal(text) == [t |-> "value", v |-> text, m |-> EmptyMap]

JObj(map) == [t |-> "object", v |-> "", m |-> map]

\* typeof body === 'object' && body != null
IsKeyed(json) == json.t = "object"

\* body[key]
Lookup(json, key) == IF key \in DOMAIN json.m THEN json.m[key] ELSE JUndef

\* the body of GET /lights/1
LightBody ==
  JObj([state |-> JObj([on |-> JVal("true"), bri |-> JVal("254")]),
        name |-> JVal("lamp")])

\* the body of GET /config
ConfigBody == JObj([name |-> JVal("bridge"), whitelist |-> JObj(EmptyMap)])

V1Bodies == {LightBody, ConfigBody}

LightV2 == JObj([id |-> JVal("a"), on |-> JObj([on |-> JVal("true")])])

\* the data of a v2 body: a list of one resource, the empty list, no data
V2Data == {JObj([k \in {"0"} |-> LightV2]), JObj(EmptyMap), JUndef}

\* What a transmission is answered with
ArrayResponse(items) ==
  [kind |-> "array", items |-> items, v2errors |-> 0, err |-> NoError,
   json |-> JUndef]

\* a v1 body that is an object (a GET)
ObjectResponse(json) ==
  [kind |-> "object", items |-> <<>>, v2errors |-> 0, err |-> NoError,
   json |-> json]

\* a v2 body {errors, data} with n entries in errors
V2Response(n, data) ==
  [kind |-> "v2", items |-> <<>>, v2errors |-> n, err |-> NoError,
   json |-> data]

\* a response without a body
EmptyResponse ==
  [kind |-> "null", items |-> <<>>, v2errors |-> 0, err |-> NoError,
   json |-> JNull]

FailedResponse(err) ==
  [kind |-> "failed", items |-> <<>>, v2errors |-> 0, err |-> err,
   json |-> JUndef]

NoResponse ==
  [kind |-> "none", items |-> <<>>, v2errors |-> 0, err |-> NoError,
   json |-> JUndef]

TransportErrors ==
  { HttpError("ECONNRESET", 0, TRUE), HttpError("ECONNRESET", 0, FALSE),
    HttpError("", 503, TRUE), HttpError("", 404, TRUE),
    HttpError("ETIMEDOUT", 0, TRUE) }

\* the answers of a bridge to a v1 transmission
V1Responses ==
  {FailedResponse(e) : e \in TransportErrors} \cup
  {ObjectResponse(b) : b \in V1Bodies} \cup {EmptyResponse} \cup
  {ArrayResponse(b) : b \in SeqsUpTo(Items, MaxItems)}

\* the answers of a bridge to a v2 transmission
V2Responses ==
  {FailedResponse(e) : e \in TransportErrors} \cup
  {V2Response(n, d) : n \in {0, 1}, d \in V2Data} \cup {EmptyResponse}

AllResponses == V1Responses \cup V2Responses

Responses(generation) == IF generation = 1 THEN V1Responses ELSE V2Responses

\* an 'error' event
ApiEvent(type) == [kind |-> "api", type |-> type]

ResendEvent(err) == [kind |-> "resend", type |-> err.type]

V2Event == [kind |-> "v2", type |-> 0]

NoEnvelope == [errors |-> <<>>, success |-> EmptyMap, body |-> "none"]

\* request, lines 629-633: the entries of one success object
RECURSIVE FlattenSuccess(_, _)
FlattenSuccess(success, entries) ==
  IF entries = <<>> THEN success
  ELSE LET a == SplitSlash(Head(entries)[1])
           key == Last(a)
       IN  FlattenSuccess(MapSet(success, key, Head(entries)[2]), Tail(entries))

\* request, lines 608-635: the loop over the items from item i on; acc is
\* [thrown, errors, success, emitted].  The client has a listener for its
\* 'error' events (an EventEmitter without one throws the error it is asked
\* to emit), so emit() returns.
RECURSIVE ProcessItems(_, _, _)
ProcessItems(items, i, acc) ==
  IF i > Len(items) THEN acc
  ELSE
    LET item == items[i] IN
    IF item.null THEN [acc EXCEPT !.thrown = TypeError]
    ELSE
      LET acc1 == IF item.error # 0
                    THEN [acc EXCEPT !.errors = Append(@, item.error),
                                     !.emitted = Append(@, ApiEvent(item.error))]
                    ELSE acc
      IN  IF item.error # 0 /\ ~IsNonCritical(item.error)
            THEN [acc1 EXCEPT !.thrown = ApiError(item.error)]
            ELSE ProcessItems(items, i + 1,
                   [acc1 EXCEPT !.success = FlattenSuccess(@, item.success)])

\* request, lines 601-637 written without line 622: no API error emitted
TryRequestNoEmit(response) ==
  LET start == [thrown |-> NoError, errors |-> <<>>, success |-> EmptyMap,
                emitted |-> <<>>, body |-> "none"]
  IN  CASE response.kind = "failed" -> [start EXCEPT !.thrown = response.err]
        [] response.kind = "array" ->
             [ProcessItems(response.items, 1, start) EXCEPT
                !.body = "array", !.emitted = <<>>]
        [] OTHER -> [start EXCEPT !.body = response.kind]

\* request, lines 601-637: the try block; the result is
\* [thrown, errors, success, emitted, body]
TryRequest(response) ==
  LET start == [thrown |-> NoError, errors |-> <<>>, success |-> EmptyMap,
                emitted |-> <<>>, body |-> "none"]
  IN  CASE response.kind = "failed" -> [start EXCEPT !.thrown = response.err]
        [] response.kind = "array" ->
             [ProcessItems(response.items, 1, start) EXCEPT !.body = "array"]
        [] OTHER -> [start EXCEPT !.body = response.kind]

\* request2, lines 670-678: the try block
TryRequest2(response) ==
  LET start == [thrown |-> NoError, errors |-> <<>>, success |-> EmptyMap,
                emitted |-> <<>>, body |-> "none"]
  IN  CASE response.kind = "failed" -> [start EXCEPT !.thrown = response.err]
        [] response.kind = "null" -> [start EXCEPT !.thrown = TypeError]
        [] OTHER ->
             [start EXCEPT
                !.emitted = [n \in 1 .. response.v2errors |-> V2Event],
                !.body = "data"]

\* request, lines 639-643: the error is a signal to resend
RetryEligibleAny(err) == TRUE

RetryEligible(err) ==
  \/ err.code = "ECONNRESET"
  \/ err.statusCode = 503
  \/ err.type = 901

\* request, line 644 written without the test of waitTimeResend
ResendAllowedNoWait(err, retry) == err.hasRequest /\ retry < MaxResend

\* request, line 644: the resend is made
ResendAllowedOffByOne(err, retry) ==
  err.hasRequest /\ waitTimeResend > 0 /\ retry <= MaxResend

ResendAllowed(err, retry) ==
  err.hasRequest /\ waitTimeResend > 0 /\ retry < MaxResend

\* request, line 648: the arguments of the resend, the body dropped
ResendArgsNoBody(cl) == [cl EXCEPT !.body = NoBody]

\* request, line 648, and request2, line 689: the arguments of the resend
ResendArgs(cl) == cl

\* super.request(method, resource, body [, headers])
Transmission(cl, executor) ==
  [method |-> cl.method, resource |-> cl.resource, body |-> cl.body,
   appKey |-> (executor = 2)]

NoTransmission ==
  [method |-> "none", resource |-> <<>>, body |-> NoBody, appKey |-> FALSE]

InitRequest ==
  /\ waitTimeResend \in WaitTimeResendValues
  /\ rq = NoCall
  /\ rqPc = "idle"
  /\ rqExecutor = 0
  /\ rqRetry = 0
  /\ nSent = 0
  /\ lastSent = NoTransmission
  /\ lastResponse = NoResponse
  /\ lastErr = NoError
  /\ firstErr = NoError
  /\ envelope = NoEnvelope
  /\ emitted = <<>>
  /\ retryEvents = 0
  /\ sentPath = <<>>
  /\ clientPath = <<"/", "api", "/", "key">>

RequestMethods == {"PUT", "POST"}

RequestResources ==
  { <<"/", "lights", "/", "1", "/", "state">>, <<"/", "light", "/", "a">> }

\* put / post hand a call over to request or request2, which transmits it
StartCall(method, resource, body) ==
  LET cl == [method |-> method, resource |-> resource, body |-> body] IN
  /\ rqPc \in {"idle", "returned", "thrown"}
  /\ rq' = cl
  /\ rqPc' = "inflight"
  /\ rqExecutor' = Generation(resource)
  /\ rqRetry' = 0
  /\ nSent' = 1
  /\ lastSent' = Transmission(cl, Generation(resource))
  /\ lastResponse' = NoResponse
  /\ lastErr' = NoError
  /\ firstErr' = NoError
  /\ envelope' = NoEnvelope
  /\ emitted' = <<>>
  /\ retryEvents' = 0
  /\ sentPath' = BasePath(resource)
  /\ clientPath' = BasePath(resource)
  /\ UNCHANGED waitTimeResend
  /\ UNCHANGED nonRequestVars

\* request / request2 from the answer to the transmission on: the try block
\* and the catch block, up to the return, the throw or the timeout()
Handle(response) ==
  /\ rqPc = "inflight"
  /\ LET try == IF rqExecutor = 1 THEN TryRequest(response)
                                  ELSE TryRequest2(response)
         err == try.thrown
         resend == /\ err # NoError
                   /\ RetryEligible(err)
                   /\ ResendAllowed(err, rqRetry)
     IN  /\ lastResponse' = response
         /\ lastErr' = err
         /\ firstErr' = IF nSent = 1 THEN err ELSE firstErr
         /\ envelope' = [errors |-> try.errors, success |-> try.success,
                         body |-> try.body]
         /\ emitted' = IF resend THEN Append(try.emitted, ResendEvent(err))
                                 ELSE try.emitted
         /\ retryEvents' = IF resend THEN retryEvents + 1 ELSE retryEvents
         /\ rqPc' = IF err = NoError THEN "returned"
                    ELSE IF resend THEN "resendWait" ELSE "thrown"
  /\ UNCHANGED <<waitTimeResend, rq, rqExecutor, rqRetry, nSent, lastSent,
                 sentPath, clientPath>>
  /\ UNCHANGED nonRequestVars

\* the transmission is answered with what a bridge answers on its base path
Respond(response) ==
  /\ rqPc = "inflight"
  /\ response \in Responses(IF sentPath = V2Path THEN 2 ELSE 1)
  /\ Handle(response)

\* request, lines 647-648, request2, lines 688-689: the wait is over and the
\* call is made again, by request in both cases
ResendTimer ==
  /\ rqPc = "resendWait"
  /\ rqPc' = "inflight"
  /\ rqExecutor' = 1
  /\ rqRetry' = rqRetry + 1
  /\ nSent' = nSent + 1
  /\ lastSent' = Transmission(ResendArgs(rq), 1)
  /\ lastResponse' = NoResponse
  /\ envelope' = NoEnvelope
  /\ emitted' = <<>>
  /\ sentPath' = clientPath
  /\ UNCHANGED <<waitTimeResend, rq, lastErr, firstErr, retryEvents, clientPath>>
  /\ UNCHANGED nonRequestVars

\* get, lines 328-355, put, lines 412-418, post and delete: another call is
\* started on the client while the call is under way, and sets this.path
OtherCall(resource) ==
  /\ rqPc \in {"inflight", "resendWait"}
  /\ clientPath' = BasePath(resource)
  /\ UNCHANGED <<waitTimeResend, rq, rqPc, rqExecutor, rqRetry, nSent, lastSent,
                 lastResponse, lastErr, firstErr, envelope, emitted,
                 retryEvents, sentPath>>
  /\ UNCHANGED nonRequestVars

NextRequest ==
  \/ \E m \in RequestMethods, r \in RequestResources : StartCall(m, r, Body({"on"}))
  \/ \E response \in AllResponses : Respond(response)
  \/ ResendTimer

(***************************************************************************)
(* get: validation, the router, the request and the walk into the body.    *)
(***************************************************************************)
\* get, line 324: resource is a string that starts with "/"
ValidResource(resource) == resource # <<>> /\ Head(resource) = Slash

\* a path segment as part of a string: the empty segment is the empty string
Tok(segment) == IF segment = "" THEN <<>> ELSE <<segment>>

NoRoute == [executor |-> 0, path |-> <<>>, resource |-> <<>>, remainder |-> <<>>]

\* get, lines 331-339: '', capabilities, config
RouteV1Root(resource, segs) ==
  IF Len(segs) > 1
    THEN [executor |-> 1, path |-> apiPath,
          resource |-> <<Slash>> \o Tok(segs[1]),
          remainder |-> Tail(segs)]
    ELSE [executor |-> 1, path |-> apiPath, resource |-> resource,
          remainder |-> <<>>]

\* get, lines 340-353 written as lines 331-339: one segment taken off
RouteV1AsRoot(resource, segs) == RouteV1Root(resource, segs)

\* get, lines 340-353: info, lights, groups, ..., resourcelinks
RouteV1(resource, segs) ==
  IF Len(segs) > 2
    THEN [executor |-> 1, path |-> apiPath,
          resource |-> <<Slash>> \o Tok(segs[1]) \o <<Slash>> \o Tok(segs[2]),
          remainder |-> SubSeq(segs, 3, Len(segs))]
    ELSE [executor |-> 1, path |-> apiPath, resource |-> resource,
          remainder |-> <<>>]

\* get, lines 357-366 written without line 362: the index "0" not injected
RouteV2NoIndex(resource, segs) ==
  IF Len(segs) >= 2
    THEN [executor |-> 2, path |-> V2Path,
          resource |-> <<Slash>> \o Tok(segs[1]) \o <<Slash>> \o Tok(segs[2]),
          remainder |-> SubSeq(segs, 3, Len(segs))]
    ELSE [executor |-> 2, path |-> V2Path,
          resource |-> IF segs[1] = "resource" THEN <<Slash>> ELSE resource,
          remainder |-> <<>>]

\* get, lines 354-366: resource (which falls through) and every other name
RouteV2(resource, segs) ==
  IF Len(segs) >= 2
    THEN [executor |-> 2, path |-> V2Path,
          resource |-> <<Slash>> \o Tok(segs[1]) \o <<Slash>> \o Tok(segs[2]),
          remainder |-> <<"0">> \o SubSeq(segs, 3, Len(segs))]
    ELSE [executor |-> 2, path |-> V2Path,
          resource |-> IF segs[1] = "resource" THEN <<Slash>> ELSE resource,
          remainder |-> <<>>]

\* get, lines 327-367: the executor, this.path, the resource requested and the
\* keys to walk (path after the switch)
Route(resource) ==
  LET segs == SplitSlash(Slice1(resource)) IN
  CASE segs[1] \in {"", "capabilities", "config"} -> RouteV1Root(resource, segs)
    [] segs[1] \in {"info", "lights", "groups", "schedules", "scenes",
                    "sensors", "rules", "resourcelinks"} -> RouteV1(resource, segs)
    [] OTHER -> RouteV2(resource, segs)

\* the array of the items of a v1 batch response; what is in an item does not
\* matter to get, which never walks into one
ItemsJson(items) ==
  JObj([k \in {ToString(i - 1) : i \in 1 .. Len(items)} |->
         LET i == CHOOSE j \in 1 .. Len(items) : ToString(j - 1) = k
         IN  IF items[i].null THEN JNull ELSE JObj(EmptyMap)])

\* the body {errors, data} of a v2 response as the bridge sent it
RawV2Body(response) ==
  JObj([errors |-> JObj([k \in {ToString(i - 1) : i \in 1 .. response.v2errors}
                           |-> JObj(EmptyMap)]),
        data |-> response.json])

\* response.body as request (lines 601-637) or request2 (lines 670-678)
\* returns it
ReturnedBody(executor, response) ==
  CASE executor = 2 -> response.json
    [] response.kind = "array" -> ItemsJson(response.items)
    [] response.kind = "v2" -> RawV2Body(response)
    [] OTHER -> response.json

\* get, lines 369-373: the walk along the keys
RECURSIVE Walk(_, _)
Walk(body, keys) ==
  IF keys = <<>> THEN body
  ELSE Walk(IF IsKeyed(body) THEN Lookup(body, Head(keys)) ELSE body, Tail(keys))

\* get, lines 375-377
NotFound ==
  [name |-> "Error", code |-> "", statusCode |-> 0, type |-> 0,
   hasRequest |-> FALSE]

\* get, line 374: body == null && path.length > 0
IsNotFound(body, keys) == body \in {JNull, JUndef} /\ Len(keys) > 0

InitGet ==
  /\ getPc = "idle"
  /\ getArg = <<>>
  /\ getRoute = NoRoute
  /\ getResult = JUndef
  /\ getErr = NoError

GetResources ==
  { <<"/">>,
    <<"/", "config", "/", "name">>,
    <<"/", "groups">>,
    <<"/", "lights", "/", "1">>,
    <<"/", "lights", "/", "1", "/", "state", "/", "bri">>,
    <<"/", "lights", "/", "1", "/", "state", "/", "bri", "/", "x">>,
    <<"/", "lights", "/", "1", "/", "foo", "/", "bar">>,
    <<"/", "light">>,
    <<"/", "light", "/", "a">>,
    <<"/", "light", "/", "a", "/", "on", "/", "on">>,
    <<"/", "resource">>,
    <<"/", "resource", "/", "light", "/", "3">>,
    <<"lights", "/", "1">>,
    <<>> }

\* get(resource) up to `await request('GET', resource)`, line 368; the record
\* of the transmissions starts anew with every call
Get(resource) ==
  /\ getPc # "awaiting"
  /\ rqPc \in {"idle", "returned", "thrown"}
  /\ getArg' = resource
  /\ getResult' = JUndef
  /\ IF ~ValidResource(resource)
       THEN /\ getPc' = "thrown"
            /\ getErr' = TypeError
            /\ getRoute' = NoRoute
            /\ rq' = NoCall
            /\ rqPc' = "idle"
            /\ rqExecutor' = 0
            /\ rqRetry' = 0
            /\ nSent' = 0
            /\ lastSent' = NoTransmission
            /\ sentPath' = <<>>
            /\ UNCHANGED clientPath
            /\ lastResponse' = NoResponse
            /\ lastErr' = NoError
            /\ firstErr' = NoError
            /\ envelope' = NoEnvelope
            /\ emitted' = <<>>
            /\ retryEvents' = 0
            /\ UNCHANGED waitTimeResend
       ELSE LET route == Route(resource)
                cl == [method |-> "GET", resource |-> route.resource,
                       body |-> NoBody]
            IN  /\ getPc' = "awaiting"
                /\ getErr' = NoError
                /\ getRoute' = route
                /\ rq' = cl
                /\ rqPc' = "inflight"
                /\ rqExecutor' = route.executor
                /\ rqRetry' = 0
                /\ nSent' = 1
                /\ lastSent' = Transmission(cl, route.executor)
                /\ sentPath' = route.path
                /\ clientPath' = route.path
                /\ lastResponse' = NoResponse
                /\ lastErr' = NoError
                /\ firstErr' = NoError
                /\ envelope' = NoEnvelope
                /\ emitted' = <<>>
                /\ retryEvents' = 0
                /\ UNCHANGED waitTimeResend
  /\ UNCHANGED nonGetVars

\* get, lines 368-379: request has returned or thrown
GetReturn ==
  /\ getPc = "awaiting"
  /\ rqPc \in {"returned", "thrown"}
  /\ IF rqPc = "thrown"
       THEN /\ getPc' = "thrown"
            /\ getErr' = lastErr
            /\ UNCHANGED getResult
       ELSE LET body == Walk(ReturnedBody(rqExecutor, lastResponse),
                             getRoute.remainder)
            IN  IF IsNotFound(body, getRoute.remainder)
                  THEN /\ getPc' = "thrown"
                       /\ getErr' = NotFound
                       /\ UNCHANGED getResult
                  ELSE /\ getPc' = "returned"
                       /\ getResult' = body
                       /\ UNCHANGED getErr
  /\ UNCHANGED <<getArg, getRoute>>
  /\ UNCHANGED requestVars
  /\ UNCHANGED nonGetVars

\* the answers of a bridge to a GET: no list with success items, which
\* answer a PUT, POST or DELETE
GetResponses ==
  {r \in AllResponses : \A i \in 1 .. Len(r.items) : r.items[i].success = <<>>}

NextGet ==
  \/ \E r \in GetResources : Get(r)
  \/ \E response \in GetResponses : Respond(response)
  \/ ResendTimer
  \/ GetReturn

(***************************************************************************)
(* get among the put / post / delete calls of a client.                    *)
(***************************************************************************)
\* get written after put, lines 393-399: waiting at a closed gate
GetCallGated(c, resource) ==
  LET cl == [method |-> "GET", resource |-> resource, body |-> NoBody] IN
  /\ microtasks = <<>>
  /\ NextCall(c)
  /\ call' = [call EXCEPT ![c] = cl]
  /\ IF waitForIt
       THEN /\ callPc' = [callPc EXCEPT ![c] = "waiting"]
            /\ goListeners' = Append(goListeners, c)
            /\ UNCHANGED <<path, issueLog>>
       ELSE /\ Issue(c, cl)
            /\ UNCHANGED goListeners
  /\ UNCHANGED <<waitTimePut, waitTimePutGroup, apiPath, waitForIt, goTimers,
                 microtasks, released>>
  /\ UNCHANGED nonThrottleVars

\* get(resource) up to line 368, where it hands over to request / request2
GetCall(c, resource) ==
  LET cl == [method |-> "GET", resource |-> resource, body |-> NoBody] IN
  /\ microtasks = <<>>
  /\ NextCall(c)
  /\ call' = [call EXCEPT ![c] = cl]
  /\ IF ~ValidResource(resource)
       THEN /\ callPc' = [callPc EXCEPT ![c] = "invalid"]
            /\ UNCHANGED <<path, issueLog>>
       ELSE /\ callPc' = [callPc EXCEPT ![c] = "issued"]
            /\ path' = Route(resource).path
            /\ issueLog' = [issueLog EXCEPT ![c] =
                 [issued |-> TRUE, gateClosed |-> waitForIt,
                  windows |-> Cardinality(goTimers),
                  generation |-> Route(resource).executor,
                  path |-> Route(resource).path]]
  /\ UNCHANGED <<waitTimePut, waitTimePutGroup, apiPath, waitForIt, goTimers,
                 goListeners, microtasks, released>>
  /\ UNCHANGED nonThrottleVars

\* the resources of the calls: the root, a v1 group, a v2 resource, and a
\* resource without the leading "/"
ClientResources ==
  { <<"/">>,
    <<"/", "groups", "/", "1", "/", "action">>,
    <<"/", "light", "/", "a">>,
    <<"lights", "/", "1", "/", "state">> }

ClientPostResources == { <<"/">>, <<"lights", "/", "1", "/", "state">> }

NextClient ==
  \/ \E c \in Calls, r \in ClientResources : GetCall(c, r)
  \/ \E c \in Calls, r \in ClientResources, b \in PutBodies : Put(c, r, b)
  \/ \E c \in Calls, m \in {"POST", "DELETE"}, r \in ClientPostResources :
        PostOrDelete(c, m, r, NoBody)
  \/ \E t \in goTimers : GoTimer(t)
  \/ ErrorEvent
  \/ Resume

(***************************************************************************)
(* EventStreamClient: init(), the 'data' handler of a response and the     *)
(* decoders _parseContainer, _parseUpdate1 and _parseUpdate2.              *)
(***************************************************************************)
\* number of frames the bridge sends on one stream
MaxFrames == 2

\* number of init() calls made on one client
MaxInits == 2

\* number of fields an entry of an update carries next to id, id_v1, owner
\* and type
MaxFields == 3

\* A value of a notification, with the members the decoders read:
\*   on {on: b}, dimming {brightness: n}, color {xy: {x: n, y: n2}},
\*   color_temperature {mirek: n, mirek_valid: b}, status s (of a scene:
\*   {active: s}), button {button_report: {event: s, updated: t}},
\*   relative_rotary {rotary_report: {action: s, rotation: {steps: n,
\*   direction: clock_wise iff b, duration: n2}, updated: t}},
\*   motion {motion: b2, motion_valid: b}, light {light_level: n,
\*   light_level_valid: b}, temperature {temperature: n, temperature_valid: b},
\*   enabled b, metadata {name: s}, id s, type s, owner {rid: s}, id_v1 t.
\* A text t is the sequence of its pieces, a time stamp ending in "Z".
Val(b, b2, n, n2, s, t) ==
  [b |-> b, b2 |-> b2, n |-> n, n2 |-> n2, s |-> s, t |-> t]

Flag(b) == Val(b, FALSE, 0, 0, "", <<>>)

Num(n) == Val(FALSE, FALSE, n, 0, "", <<>>)

Pair(x, y) == Val(FALSE, FALSE, x, y, "", <<>>)

Str(s) == Val(FALSE, FALSE, 0, 0, s, <<>>)

Text(t) == Val(FALSE, FALSE, 0, 0, "", t)

\* the number NaN
NaN == Str("NaN")

RoundDown(num, den) == num \div den

\* Math.round(num / den) for num >= 0 and den > 0: the nearest integer, a
\* half rounded up
Round(num, den) == (2 * num + den) \div (2 * den)

\* string.slice(0, -1)
DropLast(t) == SubSeq(t, 1, Len(t) - 1)

\* An entry of obj.data: its fields [k, v] in the order of the JSON text
\* (the order of Object.keys)
Fld(k, v) == [k |-> k, v |-> v]

HasKey(data, key) == \E i \in 1 .. Len(data) : data[i].k = key

Field(data, key) == data[CHOOSE i \in 1 .. Len(data) : data[i].k = key].v

\* a notification object
Obj(type, creationtime, data) ==
  [type |-> type, creationtime |-> creationtime, data |-> data]

\* The text of the stream: a sequence of pieces, "\n" and ": " being pieces
\* of their own.  Json(c) is the JSON text of the container c when that text
\* holds no ": "; JsonHead(c) ": " JsonTail(c) is the JSON text of c when it
\* holds one ": " (inside a string value).
NL == [k |-> "\n", c |-> <<>>]

Sep == [k |-> ": ", c |-> <<>>]

Word(w) == [k |-> w, c |-> <<>>]

Json(c) == [k |-> "json", c |-> c]

JsonHead(c) == [k |-> "json-head", c |-> c]

JsonTail(c) == [k |-> "json-tail", c |-> c]

\* string.split(sep)
RECURSIVE Split(_, _)
Split(seq, sep) ==
  IF \A i \in 1 .. Len(seq) : seq[i] # sep
    THEN << seq >>
    ELSE LET i == CHOOSE i \in 1 .. Len(seq) :
                    seq[i] = sep /\ \A j \in 1 .. i - 1 : seq[j] # sep
         IN  << SubSeq(seq, 1, i - 1) >> \o Split(SubSeq(seq, i + 1, Len(seq)), sep)

\* the number of "\n" a text begins with
RECURSIVE Leading(_)
Leading(seq) ==
  IF seq # <<>> /\ seq[1] = NL THEN 1 + Leading(Tail(seq)) ELSE 0

\* string.trim(): the text without the "\n" at its ends
RECURSIVE TrimEnd(_)
TrimEnd(seq) ==
  IF seq # <<>> /\ Last(seq) = NL THEN TrimEnd(DropLast(seq)) ELSE seq

Trim(seq) == TrimEnd(SubSeq(seq, Leading(seq) + 1, Len(seq)))

\* s.slice(-2) === '\n\n'
EndsWithBlankLine(seq) ==
  Len(seq) >= 2 /\ seq[Len(seq)] = NL /\ seq[Len(seq) - 1] = NL

\* the position in the stream of line i of lines, the first line being at
\* position start
RECURSIVE LineStart(_, _, _)
LineStart(lines, i, start) ==
  IF i = 1 THEN start
  ELSE LineStart(lines, i - 1, start) + Len(lines[i - 1]) + 1

\* An emitted event.  arg is the argument of a 'notification' (the object,
\* or the container when raw) or the text of a 'data' event; err the name of
\* the error of an 'error' event; src tells which line (by its position in
\* the stream), which object of its container and which entry of the object
\* the event was emitted for.
Event(name, resource, attr, arg, err, src) ==
  [name |-> name, resource |-> resource, attr |-> attr, arg |-> arg,
   err |-> err, src |-> src]

Changed(resource, attr, src) == Event("changed", resource, attr, <<>>, "", src)

Notification(arg, src) == Event("notification", <<>>, EmptyMap, arg, "", src)

\* The outcome of a piece of the handler: the events it emitted, the
\* arguments it gave to JSON.parse, and the error it threw ("" for none)
Emitted(events) == [events |-> events, parsed |-> <<>>, thrown |-> ""]

Thrown(name) == [events |-> <<>>, parsed |-> <<>>, thrown |-> name]

AndThenReversed(r1, r2) ==
  IF r1.thrown # "" THEN r1
  ELSE [events |-> r2.events \o r1.events, parsed |-> r1.parsed \o r2.parsed,
        thrown |-> r2.thrown]

\* r1 and then, unless r1 threw, r2
AndThen(r1, r2) ==
  IF r1.thrown # "" THEN r1
  ELSE [events |-> r1.events \o r2.events, parsed |-> r1.parsed \o r2.parsed,
        thrown |-> r2.thrown]

\* _parseUpdate1, lines 190-194: the buckets of an entry
NoBuckets ==
  [attr |-> EmptyMap, state |-> EmptyMap, config |-> EmptyMap, thrown |-> ""]

\* resource.startsWith('/' + name)
StartsWithName(resource, name) ==
  Len(resource) >= 2 /\ resource[1] = "/" /\ resource[2] = name

\* lines 222-227
ButtonOffsets ==
  [initial_press |-> 0, repeat |-> 1, short_release |-> 2, long_release |-> 3]

\* _parseUpdate1, lines 196-263: the switch on one key of the entry.  A
\* member read of undefined (resource of an entry without id_v1, this.buttonMap
\* before init) throws a TypeError.
Classify(acc, key, value, data, obj) ==
  LET stamp == Text(DropLast(obj.creationtime))
      id == IF HasKey(data, "id") THEN Field(data, "id").s ELSE "undefined"
  IN
  CASE key = "on" -> [acc EXCEPT !.state = MapSet(@, "on", Flag(value.b))]
    [] key = "dimming" ->
         [acc EXCEPT !.state = MapSet(@, "bri", Num(Round(value.n * 254, 100)))]
    [] key = "color" ->
         [acc EXCEPT !.state = MapSet(@, "xy", Pair(value.n, value.n2))]
    [] key = "color_temperature" ->
         IF value.b THEN [acc EXCEPT !.state = MapSet(@, "ct", Num(value.n))]
         ELSE acc
    [] key = "status" ->
         IF ~HasKey(data, "id_v1") THEN [acc EXCEPT !.thrown = "TypeError"]
         ELSE IF StartsWithName(Field(data, "id_v1").t, "sensors")
           THEN [acc EXCEPT !.config =
                   MapSet(@, "reachable", Flag(value.s = "connected"))]
         ELSE IF StartsWithName(Field(data, "id_v1").t, "scenes")
           THEN [acc EXCEPT !.attr = MapSet(@, "active", Str(value.s))]
         ELSE [acc EXCEPT !.state =
                 MapSet(@, "reachable", Flag(value.s = "connected"))]
    [] key = "button" ->
         IF ~buttonMap.built THEN [acc EXCEPT !.thrown = "TypeError"]
         ELSE [acc EXCEPT !.state =
                 MapSet(MapSet(@, "buttonevent",
                          IF id \in DOMAIN buttonMap.m
                               /\ value.s \in DOMAIN ButtonOffsets
                            THEN Num(buttonMap.m[id] + ButtonOffsets[value.s])
                            ELSE NaN),
                        "lastupdated", Text(DropLast(value.t)))]
    [] key = "relative_rotary" ->
         [acc EXCEPT !.state =
            MapSet(MapSet(MapSet(MapSet(@,
              "rotaryevent", Num(IF value.s = "start" THEN 1 ELSE 2)),
              "expectedrotation", Num(value.n * (IF value.b THEN 1 ELSE -1))),
              "expectedeventduration", Num(value.n2)),
              "lastupdated", Text(DropLast(value.t)))]
    [] key = "motion" ->
         IF value.b
           THEN [acc EXCEPT !.state =
                   MapSet(MapSet(@, "presence", Flag(value.b2)),
                          "lastupdated", stamp)]
           ELSE acc
    [] key = "light" ->
         IF value.b
           THEN [acc EXCEPT !.state =
                   MapSet(MapSet(@, "lightlevel", Num(value.n)),
                          "lastupdated", stamp)]
           ELSE acc
    [] key = "temperature" ->
         IF value.b
           THEN [acc EXCEPT !.state =
                   MapSet(MapSet(@, "temperature", Num(Round(value.n * 100, 1))),
                          "lastupdated", stamp)]
           ELSE acc
    [] key = "enabled" -> [acc EXCEPT !.config = MapSet(@, "on", Flag(value.b))]
    [] key = "metadata" -> [acc EXCEPT !.attr = MapSet(@, "name", Str(value.s))]
    [] OTHER -> acc

\* _parseUpdate1, line 195: the keys of the entry from the i-th on, in order
RECURSIVE Buckets(_, _, _, _)
Buckets(acc, data, i, obj) ==
  IF i > Len(data) \/ acc.thrown # "" THEN acc
  ELSE Buckets(Classify(acc, data[i].k, data[i].v, data, obj), data, i + 1, obj)

\* the 'changed' event of a bucket, if the bucket is not empty
BucketEvent(bucket, resource, src) ==
  IF DOMAIN bucket # {} THEN << Changed(resource, bucket, src) >> ELSE <<>>

\* _parseUpdate1, lines 190-296: one entry of obj.data
ParseEntry1(obj, data, src) ==
  LET b == Buckets(NoBuckets, data, 1, obj)
      resource == Field(data, "id_v1").t
      changes ==
        IF HasKey(data, "id_v1")
          THEN BucketEvent(b.attr, resource, src)
                 \o BucketEvent(b.state, resource \o <<"/", "state">>, src)
                 \o BucketEvent(b.config, resource \o <<"/", "config">>, src)
          ELSE <<>>
  IN  IF b.thrown # "" THEN Thrown(b.thrown)
      ELSE IF changes # <<>> THEN Emitted(changes)
      ELSE Emitted(<< Notification(<< obj >>, src) >>)

\* _parseUpdate2, lines 304-309: the fields copied into attr
RECURSIVE Attributes(_, _)
Attributes(data, i) ==
  IF i = 0 THEN EmptyMap
  ELSE IF data[i].k \in {"id", "id_v1", "owner", "type"}
    THEN Attributes(data, i - 1)
    ELSE MapSet(Attributes(data, i - 1), data[i].k, data[i].v)

\* ['', data.type, data.id].join('/'), an undefined member giving ''
MemberText(data, key) == IF HasKey(data, key) THEN Field(data, key).s ELSE ""

ParseEntry2AlwaysChanged(obj, data, src) ==
  Emitted(<< Changed(<<"/", MemberText(data, "type"), "/", MemberText(data, "id")>>,
                     Attributes(data, Len(data)), src) >>)

\* _parseUpdate2, lines 302-322: one entry of obj.data
ParseEntry2(obj, data, src) ==
  LET resource == <<"/", MemberText(data, "type"), "/", MemberText(data, "id")>>
      attr == Attributes(data, Len(data))
  IN  IF DOMAIN attr # {} THEN Emitted(<< Changed(resource, attr, src) >>)
      ELSE Emitted(<< Notification(<< obj >>, src) >>)

\* this['_parseUpdate' + this.options.version](obj): the entries of obj.data
\* from the j-th on, in order
RECURSIVE ParseUpdate(_, _, _, _)
ParseUpdate(obj, j, line, i) ==
  IF j > Len(obj.data) THEN Emitted(<<>>)
  ELSE AndThen(IF version = 1
                 THEN ParseEntry1(obj, obj.data[j], <<line, i, j>>)
                 ELSE ParseEntry2(obj, obj.data[j], <<line, i, j>>),
               ParseUpdate(obj, j + 1, line, i))

\* _parseContainer, lines 175-186: the objects of the container from the
\* i-th on, in order
RECURSIVE ParseContainer(_, _, _)
ParseContainer(container, i, line) ==
  IF i > Len(container) THEN Emitted(<<>>)
  ELSE AndThen(IF container[i].type = "update"
                 THEN ParseUpdate(container[i], 1, line, i)
                 ELSE Emitted(<< Notification(<< container[i] >>, <<line, i, 0>>) >>),
               ParseContainer(container, i + 1, line))

\* JSON.parse(text) succeeds on a whole JSON text only
IsJsonText(text) == Len(text) = 1 /\ text[1].k = "json"

\* 'data' handler, lines 137-145: one line, at position pos of the stream
DecodeLine(line, pos) ==
  LET a == Split(line, Sep)
      a1 == IF Len(a) >= 2 THEN a[2] ELSE << Word("undefined") >>
  IN  IF a[1] # << Word("data") >> THEN Emitted(<<>>)
      ELSE AndThen(
             [events |-> <<>>, parsed |-> << a1 >>,
              thrown |-> IF IsJsonText(a1) THEN "" ELSE "SyntaxError"],
             IF raw THEN Emitted(<< Notification(a1[1].c, <<pos, 0, 0>>) >>)
             ELSE ParseContainer(a1[1].c, 1, pos))

\* 'data' handler, line 136: the lines from the i-th on, in order
RECURSIVE DecodeLines(_, _, _)
DecodeLines(lines, i, start) ==
  IF i > Len(lines) THEN Emitted(<<>>)
  ELSE AndThen(DecodeLine(lines[i], LineStart(lines, i, start)),
               DecodeLines(lines, i + 1, start))

InitDecode ==
  /\ buttonMap = [built |-> FALSE, m |-> EmptyMap]
  /\ initPc = [i \in 1 .. MaxInits |-> "idle"]
  /\ buttonGets = 0
  /\ received = <<>>
  /\ buf = <<>>
  /\ esEvents = <<>>
  /\ decoded = <<>>

\* response.on('data'), lines 126-148, for a chunk of k pieces
Data(k) ==
  /\ k \in 1 .. Len(toSend)
  /\ LET chunk == SubSeq(toSend, 1, k)
         s1 == buf \o chunk
         start == Len(received) - Len(buf) + 1
         frame == Trim(s1)
         r == DecodeLines(Split(frame, NL), 1, start + Leading(s1))
     IN  /\ toSend' = SubSeq(toSend, k + 1, Len(toSend))
         /\ received' = received \o chunk
         /\ IF ~EndsWithBlankLine(s1)
              THEN buf' = s1 /\ UNCHANGED << esEvents, decoded >>
              ELSE /\ buf' = <<>>
                   /\ decoded' = decoded \o r.parsed
                   /\ esEvents' =
                        esEvents
                          \o << Event("data", <<>>, EmptyMap, frame, "", <<start, 0, 0>>) >>
                          \o r.events
                          \o (IF r.thrown # ""
                                THEN << Event("error", <<>>, EmptyMap, <<>>, r.thrown,
                                              <<start, 0, 0>>) >>
                                ELSE <<>>)
  /\ UNCHANGED << version, raw, buttonMap, initPc, buttonGets >>
  /\ UNCHANGED nonDecodeVars

\* the response of GET /button: the buttons [id, metadata.control_id]
ButtonList == << [id |-> "b1", control_id |-> 1], [id |-> "b2", control_id |-> 2] >>

\* init, lines 63-66
RECURSIVE ButtonMapOf(_, _)
ButtonMapOf(list, i) ==
  IF i = 0 THEN EmptyMap
  ELSE MapSet(ButtonMapOf(list, i - 1), list[i].id, list[i].control_id * 1000)

\* init(), lines 57-60: up to the await of client.get('/button')
\* The calls are numbered in the order they are made.
EsInit(i) ==
  /\ initPc[i] = "idle"
  /\ \A j \in 1 .. i - 1 : initPc[j] # "idle"
  /\ IF version = 1 /\ ~buttonMap.built
       THEN /\ initPc' = [initPc EXCEPT ![i] = "awaiting"]
            /\ buttonGets' = buttonGets + 1
       ELSE /\ initPc' = [initPc EXCEPT ![i] = "done"]
            /\ UNCHANGED buttonGets
  /\ UNCHANGED << version, raw, buttonMap, toSend, received, buf, esEvents, decoded >>
  /\ UNCHANGED nonDecodeVars

\* init(), lines 60-68: client.get('/button') returns the buttons, or throws
\* The pending calls differ in nothing but their number, so the one answered
\* first is taken to be the earliest of them.
ButtonResponse(i, ok) ==
  /\ initPc[i] = "awaiting"
  /\ \A j \in 1 .. i - 1 : initPc[j] # "awaiting"
  /\ IF ok
       THEN /\ buttonMap' = [built |-> TRUE, m |-> ButtonMapOf(ButtonList, Len(ButtonList))]
            /\ initPc' = [initPc EXCEPT ![i] = "done"]
       ELSE /\ initPc' = [initPc EXCEPT ![i] = "failed"]
            /\ UNCHANGED buttonMap
  /\ UNCHANGED << version, raw, buttonGets, toSend, received, buf, esEvents, decoded >>
  /\ UNCHANGED nonDecodeVars

\* ---- what the bridge sends
Stamp(text) == << text, "Z" >>

\* the fields an entry may carry, in the order they are sent
FieldOrder ==
  << Fld("on", Flag(TRUE)),
     Fld("dimming", Num(50)),
     Fld("color", Pair(3, 4)),
     Fld("color_temperature", Val(TRUE, FALSE, 300, 0, "", <<>>)),
     Fld("color_temperature", Val(FALSE, FALSE, 0, 0, "", <<>>)),
     Fld("status", Str("connected")),
     Fld("button", Val(FALSE, FALSE, 0, 0, "short_release", Stamp("T2"))),
     Fld("relative_rotary", Val(FALSE, FALSE, 15, 400, "start", Stamp("T3"))),
     Fld("motion", Val(TRUE, TRUE, 0, 0, "", <<>>)),
     Fld("motion", Val(FALSE, TRUE, 0, 0, "", <<>>)),
     Fld("light", Val(TRUE, FALSE, 1000, 0, "", <<>>)),
     Fld("temperature", Val(TRUE, FALSE, 21, 0, "", <<>>)),
     Fld("enabled", Flag(TRUE)),
     Fld("metadata", Str("lamp")),
     Fld("mode", Str("normal")) >>

FieldChoices ==
  { chosen \in SUBSET (1 .. Len(FieldOrder)) :
      /\ Cardinality(chosen) <= MaxFields
      /\ \A i, j \in chosen : FieldOrder[i].k = FieldOrder[j].k => i = j }

\* the id_v1 of an entry; <<>> for an entry without one
Roots ==
  { <<"/", "lights", "/", "1">>, <<"/", "sensors", "/", "2">>,
    <<"/", "scenes", "/", "3">>, <<>> }

\* the entry of resource b1 with the chosen fields
EntryOf(root, chosen) ==
  << Fld("id", Str("b1")) >>
    \o (IF root # <<>> THEN << Fld("id_v1", Text(root)) >> ELSE <<>>)
    \o [i \in 1 .. Cardinality(chosen) |->
          FieldOrder[CHOOSE c \in chosen :
                       Cardinality({d \in chosen : d < c}) = i - 1]]
    \o << Fld("owner", Str("d1")), Fld("type", Str("button")) >>

\* the light /lights/1 reporting on and a brightness
LightEntry(on, brightness) ==
  << Fld("id", Str("l1")), Fld("id_v1", Text(<<"/", "lights", "/", "1">>)),
     Fld("on", Flag(on)), Fld("dimming", Num(brightness)),
     Fld("owner", Str("d1")), Fld("type", Str("light")) >>

Brightnesses == 0 .. 100

Entries ==
  { EntryOf(root, chosen) : root \in Roots, chosen \in FieldChoices }
    \cup { LightEntry(on, brightness) : on \in BOOLEAN, brightness \in Brightnesses }

Update(data) == Obj("update", Stamp("T1"), data)

\* a frame of one data line
DataFrame(container) == << Word("data"), Sep, Json(container), NL, NL >>

\* the frames of one update of one entry
UpdateFrames == { DataFrame(<< Update(<< e >>) >>) : e \in Entries }

\* the frames of one update of two entries: an entry without id_v1, before or
\* after the light /lights/1
PairFrames ==
  { DataFrame(<< Update(<< EntryOf(<<>>, chosen), LightEntry(TRUE, 50) >>) >>) :
      chosen \in FieldChoices }
  \cup
  { DataFrame(<< Update(<< LightEntry(TRUE, 50), EntryOf(<<>>, chosen) >>) >>) :
      chosen \in FieldChoices }

\* ---- frames of a stream
\* the light /lights/1 is on at 50 %
LightContainer == << Update(<< LightEntry(TRUE, 50) >>) >>

\* a resource is added; a button is released and a group reports nothing
\* that v1 knows
MixedContainer ==
  << Obj("add", Stamp("T0"), << EntryOf(<<"/", "groups", "/", "1">>, {}) >>),
     Update(<< EntryOf(<<"/", "sensors", "/", "2">>, {7}),
               EntryOf(<<"/", "groups", "/", "1">>, {}) >>) >>

\* a light is renamed to "a: b"
NameContainer ==
  << Update(<< << Fld("id", Str("l1")),
                  Fld("id_v1", Text(<<"/", "lights", "/", "1">>)),
                  Fld("metadata", Str("a: b")), Fld("type", Str("light")) >> >>) >>

\* ": hi", the comment the bridge opens the stream with
HiFrame == << Sep, Word("hi"), NL, NL >>

LightFrame ==
  << Word("id"), Sep, Word("1:0"), NL,
     Word("data"), Sep, Json(LightContainer), NL, NL >>

TwoLineFrame ==
  << Word("data"), Sep, Json(MixedContainer), NL,
     Word("data"), Sep, Json(LightContainer), NL, NL >>

NameFrame ==
  << Word("data"), Sep, JsonHead(NameContainer), Sep, JsonTail(NameContainer),
     NL, NL >>

Frames == { HiFrame, LightFrame, TwoLineFrame, NameFrame }

RECURSIVE Concat(_)
Concat(frames) ==
  IF frames = <<>> THEN <<>> ELSE Head(frames) \o Concat(Tail(frames))

\* the streams of one to MaxFrames frames; the comment only opens a stream
Streams ==
  { Concat(q) : q \in { f \in SeqsUpTo(Frames, MaxFrames) \ {<<>>} :
                          \A i \in 2 .. Len(f) : f[i] # HiFrame } }

NextDecode ==
  \/ \E k \in 1 .. Len(toSend) : Data(k)
  \/ \E i \in 1 .. MaxInits : EsInit(i)
  \/ \E i \in 1 .. MaxInits, ok \in BOOLEAN : ButtonResponse(i, ok)

\* one frame of one update, received in one chunk
NextUpdate ==
  \/ Data(Len(toSend))
  \/ EsInit(1)
  \/ \E ok \in BOOLEAN : ButtonResponse(1, ok)

(***************************************************************************)
(* HueDiscovery: discover() and _found().                                  *)
(***************************************************************************)
\* number of config() calls made for one discover()
MaxVerifications == 3

Hosts == {"192.168.1.2", "192.168.1.3"}

\* no entry for a host
Nothing == [kind |-> "none", of |-> ""]

\* the bridge id a search method reports for a host
Placeholder(host) == [kind |-> "id", of |-> host]

\* the body config(host) returns
ConfigOf(host) == [kind |-> "config", of |-> host]

Job(kind, host) == [kind |-> kind, host |-> host, state |-> "pending"]

InitDiscovery ==
  /\ dPc = "idle"
  /\ bridgeMap = [h \in Hosts |-> Nothing]
  /\ jobs = <<>>
  /\ loopIndex = 0
  /\ foundBy = [h \in Hosts |-> {}]
  /\ verification = [h \in Hosts |-> "none"]

\* discover(), lines 137-157, up to the first `await job`
Discover(stealth) ==
  /\ dPc = "idle"
  /\ dPc' = "running"
  /\ bridgeMap' = [h \in Hosts |-> Nothing]
  /\ jobs' = << Job("mdns", ""), Job("upnp", "") >>
               \o (IF stealth THEN <<>> ELSE << Job("meethue.com", "") >>)
  /\ loopIndex' = 1
  /\ UNCHANGED << foundBy, verification >>
  /\ UNCHANGED nonDiscoveryVars

\* _found, lines 163-184, on d = [map, jobs, foundBy, verification]
FoundIn(d, method, host) ==
  LET new == d.map[host] = Nothing IN
  [map |-> IF new THEN [d.map EXCEPT ![host] = Placeholder(host)] ELSE d.map,
   jobs |-> IF new THEN Append(d.jobs, Job("config", host)) ELSE d.jobs,
   foundBy |-> [d.foundBy EXCEPT ![host] = @ \cup {method}],
   verification |->
     IF new THEN [d.verification EXCEPT ![host] = "pending"] ELSE d.verification]

\* _nupnp, lines 255-261: _found for every bridge of the body, in order
RECURSIVE FoundAll(_, _, _)
FoundAll(d, method, hosts) ==
  IF hosts = <<>> THEN d
  ELSE FoundAll(FoundIn(d, method, Head(hosts)), method, Tail(hosts))

Discovery ==
  [map |-> bridgeMap, jobs |-> jobs, foundBy |-> foundBy,
   verification |-> verification]

SearchJob(method) ==
  CHOOSE j \in 1 .. Len(jobs) : jobs[j].kind = method

Searching(method) ==
  /\ dPc \in {"running", "thrown"}
  /\ \E j \in 1 .. Len(jobs) : jobs[j].kind = method /\ jobs[j].state = "pending"

Verifications(js) == Cardinality({j \in 1 .. Len(js) : js[j].kind = "config"})

\* the 'up' handler of _mdns (190-192) and the 'deviceFound' handler of _upnp
\* (221-233)
Found(method, host) ==
  /\ method \in {"mdns", "upnp"}
  /\ Searching(method)
  /\ LET d == FoundIn(Discovery, method, host) IN
       /\ bridgeMap' = d.map
       /\ jobs' = d.jobs
       /\ foundBy' = d.foundBy
       /\ verification' = d.verification
  /\ UNCHANGED << dPc, loopIndex >>
  /\ UNCHANGED nonDiscoveryVars
  /\ Verifications(jobs') <= MaxVerifications

\* _mdns, lines 193-195 (the timeout runs out), and _upnp, lines 235-241
\* ('searchDone')
SearchDone(method) ==
  /\ method \in {"mdns", "upnp"}
  /\ Searching(method)
  /\ jobs' = [jobs EXCEPT ![SearchJob(method)].state = "resolved"]
  /\ UNCHANGED << dPc, bridgeMap, loopIndex, foundBy, verification >>
  /\ UNCHANGED nonDiscoveryVars

\* _upnp, line 235: an 'error' of the UpnpClient rejects once()
UpnpError ==
  /\ Searching("upnp")
  /\ jobs' = [jobs EXCEPT ![SearchJob("upnp")].state = "rejected"]
  /\ UNCHANGED << dPc, bridgeMap, loopIndex, foundBy, verification >>
  /\ UNCHANGED nonDiscoveryVars

\* the bodies of the portal: lists of hosts; <<>> also stands for a failed
\* request (lines 263-268)
PortalBodies ==
  { q \in SeqsUpTo(Hosts, Cardinality(Hosts)) :
      \A i, j \in 1 .. Len(q) : q[i] = q[j] => i = j }

\* _nupnp, lines 252-268: the portal answers
NupnpResponse(hosts) ==
  /\ Searching("meethue.com")
  /\ LET d == FoundAll(Discovery, "meethue.com", hosts) IN
       /\ bridgeMap' = d.map
       /\ jobs' = [d.jobs EXCEPT ![SearchJob("meethue.com")].state = "resolved"]
       /\ foundBy' = d.foundBy
       /\ verification' = d.verification
  /\ UNCHANGED << dPc, loopIndex >>
  /\ UNCHANGED nonDiscoveryVars
  /\ Verifications(jobs') <= MaxVerifications

\* _found, lines 174-181: config(host) returns (ok) or throws
ConfigDone(j, ok) ==
  /\ j \in 1 .. Len(jobs)
  /\ jobs[j].kind = "config" /\ jobs[j].state = "pending"
  /\ jobs' = [jobs EXCEPT ![j].state = "resolved"]
  /\ bridgeMap' = [bridgeMap EXCEPT ![jobs[j].host] =
                     IF ok THEN ConfigOf(jobs[j].host) ELSE Nothing]
  /\ verification' = [verification EXCEPT ![jobs[j].host] =
                        IF ok THEN "ok" ELSE "failed"]
  /\ UNCHANGED << dPc, loopIndex, foundBy >>
  /\ UNCHANGED nonDiscoveryVars

LastJobAtStart == Cardinality({j \in 1 .. Len(jobs) : jobs[j].kind # "config"})

\* discover, line 157: the iterator of this.jobs ends at the length the array
\* has when it is asked for the next job
LastJob == Len(jobs)

\* discover, lines 157-160: the awaited job has settled
LoopStep ==
  /\ dPc = "running"
  /\ jobs[loopIndex].state # "pending"
  /\ IF jobs[loopIndex].state = "rejected"
       THEN dPc' = "thrown" /\ UNCHANGED loopIndex
       ELSE IF loopIndex >= LastJob
         THEN dPc' = "returned" /\ UNCHANGED loopIndex
         ELSE dPc' = "running" /\ loopIndex' = loopIndex + 1
  /\ UNCHANGED << bridgeMap, jobs, foundBy, verification >>
  /\ UNCHANGED nonDiscoveryVars

NextDiscovery ==
  \/ \E stealth \in BOOLEAN : Discover(stealth)
  \/ \E method \in {"mdns", "upnp"}, host \in Hosts : Found(method, host)
  \/ \E method \in {"mdns", "upnp"} : SearchDone(method)
  \/ UpnpError
  \/ \E hosts \in PortalBodies : NupnpResponse(hosts)
  \/ \E j \in 1 .. Len(jobs), ok \in BOOLEAN : ConfigDone(j, ok)
  \/ LoopStep

(***************************************************************************)
(* numberOfZigbeeMessages, called with any body.                           *)
(***************************************************************************)
\* the keys numberOfZigbeeMessages looks for, and one it does not
BodyKeys ==
  {"on", "bri", "bri_inc", "xy", "ct", "hue", "sat", "effect", "transitiontime"}

\* put(resource, body): a body with any of the keys, or no body
EstimateBodies == { Body(keys) : keys \in SUBSET BodyKeys } \cup { NoBody }

InitEstimate == estimateBody = NoBody /\ estimate = -1

\* put, line 400: numberOfZigbeeMessages(body)
Estimate ==
  /\ estimate = -1
  /\ estimate' = numberOfZigbeeMessages(estimateBody)
  /\ UNCHANGED estimateBody
  /\ UNCHANGED nonEstimateVars

(***************************************************************************)
(* HueClient: the API key, its setter, and getApiKey.                      *)
(***************************************************************************)
\* value != null, line 306, and the truth of _options.apiKey, line 248
IsKey(value) == value \notin {"undefined", "null"}

\* constructor, lines 213 and 249, and the setter, lines 305-308
KeyPath(value) ==
  IF IsKey(value) THEN <<"/", "api", "/", value>> ELSE <<"/", "api">>

\* constructor, lines 248-251: params.apiKey is a key or is not given
InitKey ==
  /\ apiKey \in {"key", "undefined"}
  /\ headers = IF IsKey(apiKey) THEN apiKey ELSE "absent"
  /\ optionsPath = KeyPath(apiKey)
  /\ keyPc = "idle"
  /\ savedKey = "undefined"
  /\ keyResult = "undefined"

\* set apiKey (value), lines 302-310
SetApiKey(value) ==
  /\ apiKey' = value
  /\ headers' = value
  /\ optionsPath' = KeyPath(value)

\* the body of getApiKey: { devicetype }
KeyBody == Body({"devicetype"})

\* getApiKey(application), lines 465-473: up to the await of request
GetApiKey(application) ==
  /\ keyPc # "awaiting"
  /\ rqPc \in {"idle", "returned", "thrown"}
  /\ IF application = ""
       THEN /\ keyPc' = "invalid"
            /\ UNCHANGED <<apiKey, headers, optionsPath, savedKey, keyResult>>
            /\ UNCHANGED requestVars
       ELSE LET cl == [method |-> "POST", resource |-> <<Slash>>,
                       body |-> KeyBody]
            IN  /\ keyPc' = "awaiting"
                /\ savedKey' = apiKey
                /\ SetApiKey("null")
                /\ UNCHANGED keyResult
                /\ rq' = cl
                /\ rqPc' = "inflight"
                /\ rqExecutor' = 1
                /\ rqRetry' = 0
                /\ nSent' = 1
                /\ lastSent' = Transmission(cl, 1)
                /\ sentPath' = <<"/", "api">>
                /\ clientPath' = <<"/", "api">>
                /\ lastResponse' = NoResponse
                /\ lastErr' = NoError
                /\ firstErr' = NoError
                /\ envelope' = NoEnvelope
                /\ emitted' = <<>>
                /\ retryEvents' = 0
                /\ UNCHANGED waitTimeResend
  /\ UNCHANGED nonKeyVars

\* response.success.username, line 474
Username(success) ==
  IF "username" \in DOMAIN success THEN success["username"] ELSE "undefined"

\* getApiKey, lines 474-479: request has returned or thrown
KeyReturn ==
  /\ keyPc = "awaiting"
  /\ rqPc \in {"returned", "thrown"}
  /\ IF rqPc = "thrown"
       THEN /\ SetApiKey(savedKey)
            /\ keyPc' = "thrown"
            /\ UNCHANGED keyResult
       ELSE /\ SetApiKey(Username(envelope.success))
            /\ keyPc' = "returned"
            /\ keyResult' = Username(envelope.success)
  /\ UNCHANGED savedKey
  /\ UNCHANGED requestVars
  /\ UNCHANGED nonKeyVars

\* the answers of a bridge to POST /api: a new key, error 101 (link button
\* not pressed), error 7 (invalid value of devicetype), no body, no answer
KeyResponses ==
  {FailedResponse(e) : e \in TransportErrors} \cup
  { ArrayResponse(<< SuccessItem(<< << <<"username">>, "newkey" >> >>) >>),
    ArrayResponse(<< ErrorItem(101) >>),
    ArrayResponse(<< ErrorItem(7) >>),
    EmptyResponse }

NextKey ==
  \/ \E application \in {"", "app"} : GetApiKey(application)
  \/ \E response \in KeyResponses : Handle(response)
  \/ ResendTimer
  \/ KeyReturn

(***************************************************************************)
(* Specifications.  Each one draws the parameters of its own component and *)
(* constructs the other components with the defaults of their constructors.*)
(***************************************************************************)
\* HueClient constructor, lines 216-218
DefaultHueClient ==
  /\ waitTimePut = 50
  /\ waitTimePutGroup = 1000
  /\ waitTimeResend = 300

\* EventStreamClient constructor, lines 38-52
DefaultEventStreamClient == retryTime = 10

\* a client constructed with the API key "key", getApiKey not called
IdleKey == InitKey /\ apiKey = "key"

\* version 1, not raw, a stream on which nothing is sent; no discover() call
IdleDecoder ==
  /\ InitDecode /\ version = 1 /\ raw = FALSE /\ toSend = <<>>
  /\ InitDiscovery
  /\ InitEstimate
  /\ IdleKey

ThrottleInit ==
  InitThrottle /\ InitStream /\ InitRequest /\ InitGet /\ IdleDecoder
    /\ DefaultEventStreamClient /\ waitTimeResend = 300

StreamInit ==
  InitThrottle /\ InitStream /\ InitRequest /\ InitGet /\ IdleDecoder
    /\ DefaultHueClient

RequestInit ==
  InitThrottle /\ InitStream /\ InitRequest /\ InitGet /\ IdleDecoder
    /\ DefaultEventStreamClient /\ waitTimePut = 50 /\ waitTimePutGroup = 1000

ThrottleSpec == ThrottleInit /\ [][NextThrottle]_vars

\* a pending setTimeout callback of put runs: \E t \in goTimers : GoTimer(t)
TimerFires == \E t \in goTimers : GoTimer(t)

\* put calls only, with the 'error' events of their requests
NextPut ==
  \/ \E c \in Calls, r \in WriteResources, b \in PutBodies : Put(c, r, b)
  \/ TimerFires
  \/ ErrorEvent
  \/ Resume

PutSpec == ThrottleInit /\ [][NextPut]_vars

\* every setTimeout callback of put runs in the end, and a settled once()
\* promise resumes its call (the microtask queue is drained)
FairPutSpec ==
  /\ PutSpec
  /\ SF_vars(TimerFires)
  /\ WF_vars(Resume)

\* get, put, post and delete calls on one client
ClientSpec == ThrottleInit /\ [][NextClient]_vars

StreamSpec == StreamInit /\ [][NextStream]_vars

\* a pending timeout() of close(true) always runs out
FairStreamSpec == StreamSpec /\ WF_vars(RetryTimer)

\* the transmission in flight is answered: \E response : Respond(response),
\* Respond(response) leaving response in lastResponse
Answered ==
  /\ rqPc = "inflight"
  /\ lastResponse' \in AllResponses
  /\ Respond(lastResponse')

RequestSpec == RequestInit /\ [][NextRequest]_vars

\* every transmission is answered or fails (the request timeout), and a
\* pending timeout(waitTimeResend) always runs out
FairRequestSpec ==
  /\ RequestSpec
  /\ WF_vars(Answered)
  /\ WF_vars(ResendTimer)

\* get calls, one at a time, through request / request2
GetSpec == RequestInit /\ [][NextGet]_vars

DecodeInit ==
  /\ InitThrottle /\ InitStream /\ InitRequest /\ InitGet
  /\ DefaultHueClient /\ DefaultEventStreamClient
  /\ InitDecode
  /\ version \in {1, 2}
  /\ raw \in BOOLEAN
  /\ IdleKey

\* a stream of frames, received in chunks of any size, and init() calls
StreamsInit ==
  DecodeInit /\ InitDiscovery /\ InitEstimate /\ toSend \in Streams

DecodeSpec == StreamsInit /\ [][NextDecode]_vars

\* one update of one entry, decoded by _parseUpdate1 or _parseUpdate2
UpdateInit ==
  DecodeInit /\ InitDiscovery /\ InitEstimate /\ raw = FALSE
    /\ toSend \in UpdateFrames

UpdateSpec == UpdateInit /\ [][NextUpdate]_vars

\* one update of two entries, decoded by _parseUpdate1
PairInit ==
  DecodeInit /\ InitDiscovery /\ InitEstimate /\ version = 1 /\ raw = FALSE
    /\ toSend \in PairFrames

PairSpec == PairInit /\ [][NextUpdate]_vars

\* one call of numberOfZigbeeMessages with any body
EstimateInit ==
  /\ InitThrottle /\ InitStream /\ InitRequest /\ InitGet
  /\ DefaultHueClient /\ DefaultEventStreamClient
  /\ InitDecode /\ version = 1 /\ raw = FALSE /\ toSend = <<>>
  /\ InitDiscovery
  /\ IdleKey
  /\ estimateBody \in EstimateBodies /\ estimate = -1

EstimateSpec == EstimateInit /\ [][Estimate]_vars

\* one put or post call through request / request2, with other calls started
\* on the client while it is under way
NextRace ==
  \/ NextRequest
  \/ \E r \in RequestResources : OtherCall(r)

RaceSpec == RequestInit /\ [][NextRace]_vars

\* getApiKey calls, one at a time, on a client with or without an API key
KeyInit ==
  /\ InitThrottle /\ InitStream /\ InitRequest /\ InitGet
  /\ DefaultHueClient /\ DefaultEventStreamClient
  /\ InitDecode /\ version = 1 /\ raw = FALSE /\ toSend = <<>>
  /\ InitDiscovery
  /\ InitEstimate
  /\ InitKey

KeySpec == KeyInit /\ [][NextKey]_vars

\* one discover() call of a HueDiscovery
DiscoveryInit ==
  /\ InitThrottle /\ InitStream /\ InitRequest /\ InitGet
  /\ DefaultHueClient /\ DefaultEventStreamClient /\ IdleDecoder

DiscoverySpec == DiscoveryInit /\ [][NextDiscovery]_vars

(***************************************************************************)
(* Claims about the throttle (ThrottleSpec).                               *)
(***************************************************************************)
IssuedPuts == {c \in Calls : issueLog[c].issued /\ call[c].method = "PUT"}

HoldOf(c) == PutTimeout(call[c].resource, call[c].body)

\* C1 as stated: every put woken by a reopening of the gate issues its
\* request at that reopening; none of them goes back to waiting.
C1_AllReleasedIssue ==
  [][\A c \in released :
       callPc[c] = "woken" => callPc'[c] \in {"woken", "issued"}]_vars

\* C1 amended: a reopening wakes every blocked put, and the woken puts resume
\* one after another, each re-checking the gate: a put that finds it open
\* issues its request, a put that finds it closed again (by a put resumed
\* before it with a non-zero hold) goes back to waiting.
C1_ReleasedRecheckGate ==
  /\ [][(waitForIt /\ ~waitForIt') =>
          \A c \in Calls : callPc[c] = "waiting" => callPc'[c] = "woken"]_vars
  /\ [][\A c \in released :
          (callPc[c] = "woken" /\ callPc'[c] # "woken") =>
             IF waitForIt THEN callPc'[c] = "waiting"
                          ELSE callPc'[c] = "issued"]_vars

\* two puts released by the same reopening: the first has issued and holds the
\* gate, the second waits again
C1_Witness ==
  \E c \in released, d \in released :
    /\ c # d
    /\ callPc[c] = "issued"
    /\ \E t \in goTimers : t.owner = c
    /\ callPc[d] = "waiting"

\* C2: at most one hold window (pending reopen timer) is open at a time, and
\* no put issues its request while a hold window is open.
C2_OneWindow ==
  /\ Cardinality(goTimers) <= 1
  /\ \A c \in IssuedPuts : issueLog[c].windows = 0

\* two puts with a non-zero hold have issued, the window of the later is open
C2_Witness ==
  \E c \in IssuedPuts, d \in IssuedPuts :
    /\ c # d
    /\ HoldOf(c) > 0
    /\ HoldOf(d) > 0
    /\ goTimers = {[owner |-> d, delay |-> HoldOf(d)]}

\* C3 as stated: no put, post or delete issues its request while the gate is
\* closed.
C3_AllWritesGated ==
  \A c \in Calls : issueLog[c].issued => ~issueLog[c].gateClosed

\* C3 amended: only put acquires the throttle; a post or delete never waits
\* for the gate, issues also while it is closed, and never closes it.
C3_OnlyPutGated ==
  /\ \A c \in IssuedPuts : ~issueLog[c].gateClosed
  /\ \A c \in Calls :
       call[c].method \in {"POST", "DELETE"} => callPc[c] = "issued"
  /\ \A t \in goTimers : call[t.owner].method = "PUT"

\* a post and a delete have issued while the gate was closed
C3_Witness ==
  \E c \in Calls, d \in Calls :
    /\ call[c].method = "POST"
    /\ call[d].method = "DELETE"
    /\ issueLog[c].issued /\ issueLog[c].gateClosed
    /\ issueLog[d].issued /\ issueLog[d].gateClosed

(***************************************************************************)
(* Claims about the event stream (StreamSpec, FairStreamSpec).             *)
(***************************************************************************)
\* C4: after the caller has called close(), no streaming request is opened
\* unless the caller calls listen() again.
C4_NoReconnectAfterClose ==
  [][(userClosed /\ Len(reqState') > Len(reqState)) => ~userClosed']_vars

\* C5: every socket 'close' that is handled (those without a close() of the
\* caller among them) leads to exactly one reconnect when retryTime > 0, which
\* the client eventually makes, and to none when retryTime = 0.
C5_OneReconnectPerSocketClose ==
  /\ [](retryTime = 0 => (retryWait = 0 /\ autoListens = 0))
  /\ [](retryTime > 0 => socketCloses = retryWait + autoListens)
  /\ \A n \in 1 .. MaxRequests :
       (retryTime > 0 /\ socketCloses >= n) ~> (autoListens >= n)

\* the socket of the first request was lost, the caller never called close(),
\* and the client has opened its second request by itself
C5_Witness ==
  /\ retryTime > 0
  /\ ~userClosed
  /\ socketCloses = 1
  /\ autoListens = 1
  /\ reqState = <<"closed", "pending">>
  /\ esRequest = 2

(***************************************************************************)
(* Claims about request / request2 (RequestSpec, FairRequestSpec).         *)
(***************************************************************************)
V1Call == rqPc # "idle" /\ IsApiV1Resource(rq.resource)

V2Call == rqPc # "idle" /\ ~IsApiV1Resource(rq.resource)

CallEnded == rqPc \in {"returned", "thrown"}

\* connection reset, HTTP status 503 or API error 901
ResendSignal(err) ==
  err # NoError /\ (err.code = "ECONNRESET" \/ err.statusCode = 503 \/ err.type = 901)

\* C6: a v1 call that fails with a resend signal is sent again with the same
\* method, resource and body, at most 5 times after the first attempt; every
\* resend is made from the wait that follows one resend diagnostic; a failure
\* of the 5th resend is surfaced, and the call always ends.
C6_ResendAtMostFiveTimes ==
  /\ [](V1Call =>
         /\ rqRetry <= 5
         /\ nSent = rqRetry + 1
         /\ lastSent = [method |-> rq.method, resource |-> rq.resource,
                        body |-> rq.body, appKey |-> FALSE]
         /\ retryEvents = rqRetry + (IF rqPc = "resendWait" THEN 1 ELSE 0)
         /\ (rqPc = "resendWait" =>
               /\ ResendSignal(lastErr)
               /\ Last(emitted) = ResendEvent(lastErr)
               /\ waitTimeResend > 0))
  /\ [][(V1Call /\ nSent' = nSent + 1) => rqPc = "resendWait"]_vars
  /\ [][(V1Call /\ rqPc = "inflight" /\ rqRetry = 5 /\ rqPc' # "inflight") =>
          (rqPc' = "returned" \/ (rqPc' = "thrown" /\ lastErr' # NoError))]_vars
  /\ (rqPc = "inflight") ~> CallEnded

\* a v1 call answered with API error 901 six times: five resends were made
\* and the error of the fifth is surfaced
C6_Witness ==
  /\ V1Call
  /\ rqPc = "thrown"
  /\ lastErr = ApiError(901)
  /\ rqRetry = 5
  /\ nSent = 6
  /\ retryEvents = 5

\* C7 as stated: a call is transmitted at most 5 times, the first attempt
\* and all resends counted.
C7_AtMostFiveAttempts == nSent <= 5

\* C7 amended: a call, v1 or v2, is transmitted at most 6 times: the first
\* attempt and at most 5 resends.
C7_AtMostSixAttempts == nSent <= 6

\* a v2 call transmitted six times, the resends by request
C7_Witness ==
  /\ V2Call
  /\ nSent = 6
  /\ rqExecutor = 1
  /\ ~lastSent.appKey

\* C8: a failure that is no resend signal is never followed by a resend: the
\* call throws it after the transmission that failed, the first included.
C8_OtherFailuresNotResent ==
  /\ rqPc = "resendWait" => ResendSignal(lastErr)
  /\ (lastErr # NoError /\ ~ResendSignal(lastErr)) => rqPc = "thrown"
  /\ (firstErr # NoError /\ ~ResendSignal(firstErr)) =>
       (rqPc = "thrown" /\ nSent = 1 /\ lastErr = firstErr)

\* a critical API error of type 1 thrown after one transmission, with resends
\* switched on
C8_Witness ==
  /\ waitTimeResend > 0
  /\ rqPc = "thrown"
  /\ nSent = 1
  /\ lastErr = ApiError(1)

\* the error types of the items of a batch, in order
ErrorTypesOf(items) ==
  LET sel == SelectSeq(items, LAMBDA it : it.error # 0)
  IN  [n \in 1 .. Len(sel) |-> sel[n].error]

\* the positions <<i, j>> of the success entries of the first n items
EntriesOf(items, n) ==
  UNION {{<<i, j>> : j \in 1 .. Len(items[i].success)} : i \in 1 .. n}

Later(p, q) == q[1] > p[1] \/ (q[1] = p[1] /\ q[2] > p[2])

\* the final segment of the path of entry p
FinalSegment(items, p) ==
  LET entryPath == items[p[1]].success[p[2]][1] IN entryPath[Len(entryPath)]

EntryValue(items, p) == items[p[1]].success[p[2]][2]

\* every entry is under its final segment, the latest of a segment with its value
SuccessRecorded(items, n, success) ==
  /\ DOMAIN success = {FinalSegment(items, p) : p \in EntriesOf(items, n)}
  /\ \A p \in EntriesOf(items, n) :
       (\A q \in EntriesOf(items, n) :
          Later(p, q) => FinalSegment(items, q) # FinalSegment(items, p))
       => success[FinalSegment(items, p)] = EntryValue(items, p)

\* C9: a v1 batch response with error items of the types 6, 7, 8, 201 only is
\* processed to its end: the call returns, every error is in the list of
\* errors and was emitted, and every success entry, before or after an
\* error, is recorded under the final segment of its path.
C9_NonCriticalContinues ==
  LET items == lastResponse.items IN
  (/\ lastResponse.kind = "array"
   /\ \E i \in 1 .. Len(items) : items[i].error \in {6, 7, 8, 201}
   /\ \A i \in 1 .. Len(items) :
        ~items[i].null /\ items[i].error \in {0, 6, 7, 8, 201})
  => /\ rqPc = "returned"
     /\ envelope.errors = ErrorTypesOf(items)
     /\ emitted = [n \in 1 .. Len(envelope.errors) |-> ApiEvent(envelope.errors[n])]
     /\ SuccessRecorded(items, Len(items), envelope.success)

\* the response [{error type 7}, {success "/lights/1/state/on": true}]
C9_Witness ==
  /\ lastResponse =
       ArrayResponse(<<ErrorItem(7), SuccessItem(<< <<PathOn1, "true">> >>)>>)
  /\ rqPc = "returned"
  /\ envelope.errors = <<7>>
  /\ DOMAIN envelope.success = {"on"}
  /\ envelope.success["on"] = "true"

\* the 'error' events of the attempt without the resend diagnostic
ApiEventsEmitted ==
  IF rqPc = "resendWait" THEN SubSeq(emitted, 1, Len(emitted) - 1) ELSE emitted

\* C10: when item k is the first item of a v1 batch response with an error of
\* a type outside 6, 7, 8, 201, the attempt fails with that error, and nothing
\* of an item after k is recorded or emitted.
C10_CriticalAborts ==
  LET items == lastResponse.items IN
  \A k \in 1 .. Len(items) :
    (/\ lastResponse.kind = "array"
     /\ ~items[k].null
     /\ items[k].error \notin {0, 6, 7, 8, 201}
     /\ \A i \in 1 .. k - 1 :
          ~items[i].null /\ items[i].error \in {0, 6, 7, 8, 201})
    => /\ rqPc \in {"thrown", "resendWait"}
       /\ lastErr = ApiError(items[k].error)
       /\ envelope.errors = ErrorTypesOf(SubSeq(items, 1, k))
       /\ ApiEventsEmitted =
            [n \in 1 .. Len(envelope.errors) |-> ApiEvent(envelope.errors[n])]
       /\ SuccessRecorded(items, k - 1, envelope.success)

\* the response [{error type 1}, {success "/lights/1/state/on": true}]
C10_Witness ==
  /\ lastResponse =
       ArrayResponse(<<ErrorItem(1), SuccessItem(<< <<PathOn1, "true">> >>)>>)
  /\ rqPc = "thrown"
  /\ lastErr = ApiError(1)
  /\ envelope.errors = <<1>>
  /\ envelope.success = EmptyMap

(***************************************************************************)
(* Claims about the calls of a client (ClientSpec, ThrottleSpec).          *)
(***************************************************************************)
IssuedCalls == {c \in Calls : issueLog[c].issued}

\* C11: two calls (get, put, post or delete) of the same resource path issue
\* with the same generation and the same base path: v1 with the API path of
\* the session, or v2 with /clip/v2/resource.
C11_SameGenerationForAPath ==
  \A c \in IssuedCalls, d \in IssuedCalls :
    call[c].resource = call[d].resource =>
      /\ issueLog[c].generation = issueLog[d].generation
      /\ issueLog[c].path = issueLog[d].path
      /\ issueLog[c].path = (IF issueLog[c].generation = 1 THEN apiPath ELSE V2Path)

\* C12: a call of a resource path that does not start with "/" fails before
\* it changes the throttle: it never waits at the gate and never closes it,
\* and a get fails with the validation error at once.  (What the transport
\* does with such a path when put, post or delete hand it over is not part of
\* this formula.)
C12_MalformedPathRejected ==
  \A c \in Calls :
    (call[c].method # "none" /\ ~ValidResource(call[c].resource)) =>
       /\ callPc[c] \notin {"waiting", "woken"}
       /\ \A t \in goTimers : t.owner # c
       /\ call[c].method = "GET" => callPc[c] = "invalid"

\* C16: a get never waits for the gate (it has issued its request, or failed
\* its validation, as soon as it is called, also while the gate is closed), and
\* the gate is only ever closed by the hold of a put.
C16_GetNeverThrottled ==
  /\ \A c \in Calls :
       call[c].method = "GET" =>
         /\ callPc[c] \in {"issued", "invalid"}
         /\ \A t \in goTimers : t.owner # c
  /\ waitForIt => \E t \in goTimers : call[t.owner].method = "PUT"

\* a get has issued its request while the gate was closed, and the gate is
\* still closed
C16_Witness ==
  \E c \in Calls :
    /\ call[c].method = "GET"
    /\ issueLog[c].issued
    /\ issueLog[c].gateClosed
    /\ waitForIt

\* the hold the claim gives a put: the number of Zigbee messages of its body
\* times waitTimePutGroup for a resource under /groups, waitTimePut otherwise
C17_Hold(cl) ==
  numberOfZigbeeMessages(cl.body) *
    (IF cl.resource[2] = "groups" THEN waitTimePutGroup ELSE waitTimePut)

\* C17: the step in which a put passes the gate opens a window of exactly
\* C17_Hold milliseconds when that is more than 0 and leaves the gate open
\* otherwise; the gate is closed exactly while a window is open, and it
\* reopens only by the end of a window.
C17_HoldIsMessagesTimesWait ==
  /\ [][\A c \in Calls :
          (~issueLog[c].issued /\ issueLog'[c].issued /\ call'[c].method = "PUT")
          => IF C17_Hold(call'[c]) > 0
               THEN /\ waitForIt'
                    /\ goTimers' =
                         goTimers \cup {[owner |-> c, delay |-> C17_Hold(call'[c])]}
               ELSE /\ ~waitForIt'
                    /\ goTimers' = goTimers]_vars
  /\ [][waitForIt' <=> goTimers' # {}]_vars
  /\ [][(waitForIt /\ ~waitForIt') => \E t \in goTimers : goTimers' = goTimers \ {t}]_vars

\* a put of two Zigbee messages to /groups/1/action holds the gate for
\* 2 x 1000 ms, and a put of one message to a light has issued without a hold
C17_Witness ==
  \E c \in IssuedPuts, d \in IssuedPuts :
    /\ waitTimePutGroup = 1000
    /\ waitTimePut = 0
    /\ call[c].resource = <<"/", "groups", "/", "1", "/", "action">>
    /\ call[c].body = Body({"bri", "xy"})
    /\ goTimers = {[owner |-> c, delay |-> 2000]}
    /\ waitForIt
    /\ call[d].resource = <<"/", "lights", "/", "1", "/", "state">>
    /\ d < c

(***************************************************************************)
(* Claims about v2 calls (RequestSpec).                                    *)
(***************************************************************************)
\* C14: a v2 call that returns, after the first transmission or after a
\* resend, with a response that has a body {errors, data}, returns the data
\* of that body as its body.
C14_V2ReturnsData ==
  (V2Call /\ rqPc = "returned" /\ lastResponse.kind = "v2") =>
     /\ envelope.body = "data"
     /\ ReturnedBody(rqExecutor, lastResponse) = lastResponse.json

\* C15: every transmission of a v2 call, the first and every resend, carries
\* the hue-application-key header.
C15_EveryTransmissionHasKey == (V2Call /\ nSent > 0) => lastSent.appKey

(***************************************************************************)
(* Claims about get (GetSpec).                                             *)
(***************************************************************************)
\* the value at the end of the keys, when every key but the last leads to an
\* object or array that has the next key
RECURSIVE Resolve(_, _)
Resolve(body, keys) ==
  IF keys = <<>> THEN body
  ELSE IF IsKeyed(body) /\ Head(keys) \in DOMAIN body.m
         THEN Resolve(body.m[Head(keys)], Tail(keys))
         ELSE JUndef

GetEnded == getPc \in {"returned", "thrown"}

\* C13: when request has returned and get has keys to walk, get throws the
\* not-found error if the keys cannot all be resolved in the body (a key is
\* absent, or a value that is no object is met with keys left), and whatever
\* it returns is the value at the end of all the keys.
C13_NotFoundUnlessResolved ==
  (GetEnded /\ rqPc = "returned" /\ getRoute.remainder # <<>>) =>
     LET full == Resolve(ReturnedBody(rqExecutor, lastResponse), getRoute.remainder)
     IN  /\ full = JUndef => (getPc = "thrown" /\ getErr = NotFound)
         /\ getPc = "returned" => getResult = full

\* C18 as stated: an error thrown by get has been emitted as an 'error' event.
C18_EveryErrorEmitted ==
  getPc = "thrown" =>
    \E i \in 1 .. Len(emitted) :
      emitted[i] = [kind |-> "api", type |-> getErr.type]

\* C18 amended: an API error of the bridge thrown by request, and by get, was
\* emitted as an 'error' event in the attempt that threw it; the validation
\* error of get is thrown with nothing emitted, and when get throws its
\* not-found error the only events are those of the errors in the response.
C18_ApiErrorsEmitted ==
  /\ (rqPc = "thrown" /\ lastErr.type # 0) =>
        \E i \in 1 .. Len(emitted) : emitted[i] = ApiEvent(lastErr.type)
  /\ (getPc = "thrown" /\ getErr.type # 0) =>
        \E i \in 1 .. Len(emitted) : emitted[i] = ApiEvent(getErr.type)
  /\ (getPc = "thrown" /\ ~ValidResource(getArg)) =>
        (getErr = TypeError /\ emitted = <<>>)
  /\ (getPc = "thrown" /\ getErr = NotFound) =>
        Len(emitted) = Len(envelope.errors) +
                       (IF rqExecutor = 2 THEN lastResponse.v2errors ELSE 0)

\* get has thrown the critical API error 1 of the bridge, emitted before
C18_Witness ==
  /\ getPc = "thrown"
  /\ getErr = ApiError(1)
  /\ emitted = <<ApiEvent(1)>>

ResourceLight3 == <<"/", "resource", "/", "light", "/", "3">>

\* C19 as stated: get('/resource/light/3') selects request2 and
\* /clip/v2/resource, requests /light/3 and walks the keys "3", "0".
C19_ResourceLight3 ==
  (getArg = ResourceLight3 /\ getPc # "idle") =>
     getRoute = [executor |-> 2, path |-> V2Path,
                 resource |-> <<"/", "light", "/", "3">>,
                 remainder |-> <<"3", "0">>]

\* C19 amended: get('/resource/light/3') selects request2 and
\* /clip/v2/resource, requests /resource/light (the segment resource is not
\* taken off) and walks the keys "0", "3".
C19_ResourceLight3AsRouted ==
  (getArg = ResourceLight3 /\ getPc # "idle") =>
     /\ getRoute = [executor |-> 2, path |-> V2Path,
                    resource |-> <<"/", "resource", "/", "light">>,
                    remainder |-> <<"0", "3">>]
     /\ rq.method = "GET"
     /\ rq.resource = <<"/", "resource", "/", "light">>
     /\ sentPath = V2Path

\* get('/resource/light/3') has made its request
C19_Witness ==
  /\ getArg = ResourceLight3
  /\ getPc = "awaiting"
  /\ nSent = 1

\* the names get routes to v1: the legacy resource names and the root
LegacyNames == apiV1Resources \cup {""}

\* C20: for a path /<type>/<id>[/rest...] with a first segment that is no
\* legacy name, get selects request2 and /clip/v2/resource, requests
\* /<type>/<id> and walks the keys "0", rest...; and get('/<type>/<id>'),
\* answered with a data list of one element, returns that element.
C20_V2ById ==
  LET segs == SplitSlash(Slice1(getArg)) IN
  (/\ getPc # "idle"
   /\ ValidResource(getArg)
   /\ Len(segs) >= 2
   /\ segs[1] \notin LegacyNames)
  => /\ getRoute = [executor |-> 2, path |-> V2Path,
                    resource |-> <<"/", segs[1], "/", segs[2]>>,
                    remainder |-> <<"0">> \o SubSeq(segs, 3, Len(segs))]
     /\ (/\ GetEnded
         /\ Len(segs) = 2
         /\ rqPc = "returned"
         /\ IsKeyed(lastResponse.json)
         /\ DOMAIN lastResponse.json.m = {"0"})
        => (getPc = "returned" /\ getResult = lastResponse.json.m["0"])

\* the names of get's second group of cases, lines 340-347
TwoSegmentNames ==
  {"info", "lights", "groups", "schedules", "scenes", "sensors", "rules",
   "resourcelinks"}

\* C21: for a path with a first segment among info, lights, ..., resourcelinks,
\* get selects request and the API path of the session; with at most 2
\* segments it requests the path as it is and has no keys to walk, with more
\* it requests the first two segments and walks the other segments.
C21_LegacyRouting ==
  LET segs == SplitSlash(Slice1(getArg)) IN
  (/\ getPc # "idle"
   /\ ValidResource(getArg)
   /\ segs[1] \in TwoSegmentNames)
  => /\ getRoute.executor = 1
     /\ getRoute.path = apiPath
     /\ sentPath = apiPath
     /\ rq.resource = getRoute.resource
     /\ IF Len(segs) <= 2
          THEN getRoute.resource = getArg /\ getRoute.remainder = <<>>
          ELSE /\ getRoute.resource = <<"/", segs[1], "/", segs[2]>>
               /\ getRoute.remainder = SubSeq(segs, 3, Len(segs))

\* get('/lights/1/state/bri') has requested /lights/1 and get('/lights/1')
\* before it returned the body of /lights/1 as it came
C21_Witness ==
  /\ getArg = <<"/", "lights", "/", "1", "/", "state", "/", "bri">>
  /\ getPc = "returned"
  /\ rq.resource = <<"/", "lights", "/", "1">>
  /\ getRoute.remainder = <<"state", "bri">>
  /\ getResult = JVal("254")

(***************************************************************************)
(* Claims about the event stream (DecodeSpec, UpdateSpec).                 *)
(***************************************************************************)
DecoderEvents == {i \in 1 .. Len(esEvents) : esEvents[i].name \in {"changed", "notification"}}

\* a comes after b: in a later line, or in the same line in a later object,
\* or in the same object in a later entry
ArrivedAfter(a, b) ==
  \/ a[1] > b[1]
  \/ a[1] = b[1] /\ a[2] > b[2]
  \/ a[1] = b[1] /\ a[2] = b[2] /\ a[3] > b[3]

\* C22: change events and notifications are emitted in the order in which
\* their notifications arrived on the stream: no event of an entry that
\* arrived later is emitted before an event of an entry that arrived earlier.
C22_EventsInArrivalOrder ==
  \A i, j \in DecoderEvents :
    i < j => ~ArrivedAfter(esEvents[i].src, esEvents[j].src)

\* three data lines in two frames have been decoded without an error, one of
\* them with two objects and two entries
C22_Witness ==
  /\ version = 1 /\ ~raw /\ toSend = <<>> /\ buf = <<>>
  /\ \A i \in 1 .. Len(esEvents) : esEvents[i].name # "error"
  /\ Cardinality({esEvents[i].src[1] : i \in DecoderEvents}) >= 3
  /\ \E i \in DecoderEvents : esEvents[i].src[2] = 2 /\ esEvents[i].src[3] = 2
  /\ \E i \in DecoderEvents : esEvents[i].name = "changed"
  /\ Cardinality({esEvents[i].src[1] : i \in {j \in 1 .. Len(esEvents) : esEvents[j].name = "data"}}) = 2

\* the entry of the update of UpdateSpec, once its frame has been handled
Handled == received # <<>> /\ buf = <<>>

HandledEntry == received[3].c[1].data[1]

EventsNamed(name) == SelectSeq(esEvents, LAMBDA e : e.name = name)

ResourcesOf(events) == [i \in 1 .. Len(events) |-> events[i].resource]

Valid(data, key) == HasKey(data, key) /\ Field(data, key).b

\* the buckets of section 4.5 that an entry fills
FillsAttr(data) ==
  \/ HasKey(data, "metadata")
  \/ HasKey(data, "status") /\ StartsWithName(Field(data, "id_v1").t, "scenes")

FillsState(data) ==
  \/ \E key \in {"on", "dimming", "color", "button", "relative_rotary"} :
        HasKey(data, key)
  \/ \E key \in {"color_temperature", "motion", "light", "temperature"} :
        Valid(data, key)
  \/ /\ HasKey(data, "status")
     /\ ~StartsWithName(Field(data, "id_v1").t, "scenes")
     /\ ~StartsWithName(Field(data, "id_v1").t, "sensors")

FillsConfig(data) ==
  \/ HasKey(data, "enabled")
  \/ HasKey(data, "status") /\ StartsWithName(Field(data, "id_v1").t, "sensors")

ExpectedChanges(data) ==
  LET root == Field(data, "id_v1").t IN
  (IF FillsAttr(data) THEN << root >> ELSE <<>>)
    \o (IF FillsState(data) THEN << root \o <<"/", "state">> >> ELSE <<>>)
    \o (IF FillsConfig(data) THEN << root \o <<"/", "config">> >> ELSE <<>>)

\* C23: in version 1 an entry of an update that has id_v1 = R yields exactly
\* one 'changed' event per non-empty bucket, for R, R/state and R/config in
\* that order, and when the three buckets are empty exactly one
\* 'notification' and no 'changed' event.
C23_OneChangePerBucket ==
  (/\ version = 1 /\ Handled /\ HasKey(HandledEntry, "id_v1"))
  => /\ ResourcesOf(EventsNamed("changed")) = ExpectedChanges(HandledEntry)
     /\ Len(EventsNamed("notification"))
          = (IF ExpectedChanges(HandledEntry) = <<>> THEN 1 ELSE 0)

LightsState == <<"/", "lights", "/", "1", "/", "state">>

\* bri is brightness * 2.54 rounded to the nearest integer, a half upwards
IsScaled(bri, brightness) ==
  100 * bri - 50 <= 254 * brightness /\ 254 * brightness < 100 * bri + 50

\* C24: in version 1 an entry for /lights/1 carrying on and dimming yields
\* exactly one 'changed' event, for /lights/1/state, with on and with bri =
\* round(brightness * 2.54), which is within 0 .. 254 for a brightness in
\* 0 .. 100: 50 gives 127, 0 gives 0 and 100 gives 254.
C24_BrightnessScaled ==
  \A on \in BOOLEAN, brightness \in Brightnesses :
    (/\ version = 1 /\ Handled /\ HandledEntry = LightEntry(on, brightness))
    => /\ Len(EventsNamed("changed")) = 1
       /\ EventsNamed("notification") = <<>>
       /\ EventsNamed("error") = <<>>
       /\ LET e == EventsNamed("changed")[1] IN
            /\ e.resource = LightsState
            /\ DOMAIN e.attr = {"on", "bri"}
            /\ e.attr["on"] = Flag(on)
            /\ e.attr["bri"] = Num(e.attr["bri"].n)
            /\ e.attr["bri"].n \in 0 .. 254
            /\ IsScaled(e.attr["bri"].n, brightness)
            /\ brightness = 50 => e.attr["bri"].n = 127
            /\ brightness = 0 => e.attr["bri"].n = 0
            /\ brightness = 100 => e.attr["bri"].n = 254

\* the frame of the example has been decoded: on at 50 % gives bri 127
C24_Witness ==
  /\ version = 1 /\ Handled /\ HandledEntry = LightEntry(TRUE, 50)
  /\ ResourcesOf(EventsNamed("changed")) = << LightsState >>
  /\ EventsNamed("changed")[1].attr = [on |-> Flag(TRUE), bri |-> Num(127)]

\* the fields of an entry other than id, id_v1, owner and type
Remaining(data) ==
  {i \in 1 .. Len(data) : data[i].k \notin {"id", "id_v1", "owner", "type"}}

\* C25: in version 2 an entry of an update yields exactly one event: a
\* 'changed' event for /<type>/<id> with every field of the entry except id,
\* id_v1, owner and type, unchanged, or, when no field remains, one
\* 'notification' and no 'changed' event.
C25_OneEventPerEntry ==
  (version = 2 /\ Handled)
  => LET data == HandledEntry
         changed == EventsNamed("changed")
         notified == EventsNamed("notification")
     IN  /\ EventsNamed("error") = <<>>
         /\ IF Remaining(data) # {}
              THEN /\ notified = <<>>
                   /\ Len(changed) = 1
                   /\ changed[1].resource
                        = <<"/", Field(data, "type").s, "/", Field(data, "id").s>>
                   /\ DOMAIN changed[1].attr = {data[i].k : i \in Remaining(data)}
                   /\ \A i \in Remaining(data) : changed[1].attr[data[i].k] = data[i].v
              ELSE /\ changed = <<>>
                   /\ Len(notified) = 1
                   /\ notified[1].arg = received[3].c

\* a button entry with status and button has been decoded in version 2
C25_Witness ==
  /\ version = 2 /\ Handled
  /\ HandledEntry = EntryOf(<<"/", "sensors", "/", "2">>, {6, 7})
  /\ ResourcesOf(EventsNamed("changed")) = << <<"/", "button", "/", "b1">> >>
  /\ EventsNamed("changed")[1].attr
       = [status |-> FieldOrder[6].v, button |-> FieldOrder[7].v]

\* C26: in version 1 the GET /button request that builds the button map is
\* made at most once per client, over any sequence or overlap of init()
\* calls; in version 2 it is never made.
C26_ButtonGetAtMostOnce == buttonGets <= (IF version = 1 THEN 1 ELSE 0)

\* the texts after the "data: " prefix of the data lines of a text, in order
PayloadsOf(text) ==
  LET lines == Split(text, NL)
      dataLines == SelectSeq(lines, LAMBDA line :
                     Len(line) >= 2 /\ line[1] = Word("data") /\ line[2] = Sep)
  IN  [i \in 1 .. Len(dataLines) |-> SubSeq(dataLines[i], 3, Len(dataLines[i]))]

\* C28: every data line received is decoded exactly once, with the whole
\* text after "data: " as its JSON text (also when that text holds ": "), at
\* the first moment the buffer ends with a blank line, and the buffer is
\* empty after a frame has been processed.
C28_EveryDataLineDecoded ==
  /\ EndsWithBlankLine(received) => buf = <<>>
  /\ decoded = PayloadsOf(SubSeq(received, 1, Len(received) - Len(buf)))

(***************************************************************************)
(* Claims about discovery (DiscoverySpec).                                 *)
(***************************************************************************)
\* C27: when discover() returns, the map it returns holds exactly the hosts
\* that a search method has found and whose config() call succeeded, each
\* with the config returned for it: a host whose verification failed is
\* absent, no entry is still a bridge id, and no verification is pending.
C27_ResultHoldsVerifiedHosts ==
  dPc = "returned"
  => /\ \A h \in Hosts :
          bridgeMap[h] = (IF foundBy[h] # {} /\ verification[h] = "ok"
                            THEN ConfigOf(h) ELSE Nothing)
     /\ \A j \in 1 .. Len(jobs) : jobs[j].state # "pending"
     /\ \A h \in Hosts : verification[h] # "pending"

\* discover() has returned one verified host, found by two methods, and has
\* dropped a host whose verification failed
C27_Witness ==
  /\ dPc = "returned"
  /\ \E h \in Hosts : bridgeMap[h] = ConfigOf(h) /\ Cardinality(foundBy[h]) >= 2
  /\ \E h \in Hosts : bridgeMap[h] = Nothing /\ verification[h] = "failed"

(***************************************************************************)
(* Claims about numberOfZigbeeMessages (EstimateSpec) and about a call     *)
(* among other calls (RaceSpec).                                           *)
(***************************************************************************)
FieldGroups == { {"on"}, {"bri", "bri_inc"}, {"xy", "ct", "hue", "sat", "effect"} }

GroupsPresent(body) ==
  Cardinality({g \in FieldGroups : body.defined /\ g \cap body.keys # {}})

\* C29: numberOfZigbeeMessages(body) is the number of the field groups
\* {on}, {bri, bri_inc}, {xy, ct, hue, sat, effect} present in body, and 1
\* when none is: it is within 1 .. 3, {on} gives 1, {bri, xy} gives 2, and {}
\* or a missing body gives 1.
C29_EstimateIsGroupCount ==
  estimate # -1
  => /\ estimate = (IF GroupsPresent(estimateBody) = 0 THEN 1
                                ELSE GroupsPresent(estimateBody))
     /\ estimate \in 1 .. 3
     /\ estimateBody = Body({"on"}) => estimate = 1
     /\ estimateBody = Body({"bri", "xy"}) => estimate = 2
     /\ estimateBody \in {Body({}), NoBody} => estimate = 1

\* the estimate of {bri, xy} has been computed
C29_Witness == estimateBody = Body({"bri", "xy"}) /\ estimate = 2

\* C30: a retried request is sent to the base path of its first attempt,
\* also when calls of the other generation are started on the client during
\* the wait for the retry.
C30_RetryKeepsBasePath ==
  rqRetry > 0 => sentPath = BasePath(rq.resource)

(***************************************************************************)
(* Claims about blocked puts (FairPutSpec).                                *)
(***************************************************************************)
\* C31: with a finite number of put calls and every hold timer firing in the
\* end, every put blocked on the closed gate issues its request in the end.
C31_BlockedPutIssues ==
  \A c \in Calls : (callPc[c] = "waiting") ~> (callPc[c] = "issued")

\* a put that found the gate closed, waited, and has issued its request
C31_Witness ==
  \E c \in Calls :
    /\ call[c].method = "PUT"
    /\ c \in released
    /\ callPc[c] = "issued"
    /\ issueLog[c].issued
(***************************************************************************)
(* Claims about the open streaming requests (StreamSpec).                  *)
(***************************************************************************)
\* the streaming requests that have been opened and not destroyed
OpenRequests ==
  {r \in Requests : reqState[r] \in {"pending", "socket", "response"}}

\* C32: at any time at most one streaming request is open per
\* EventStreamClient, over any sequence of listen(), close(), socket closes
\* and automatic reconnects, listen() during a reconnect delay included.
C32_AtMostOneOpen == Cardinality(OpenRequests) <= 1
(***************************************************************************)
(* Claims about waitTimeResend = 0 (RequestSpec).                          *)
(***************************************************************************)
\* C33: with waitTimeResend = 0 a retry-eligible failure (connection reset,
\* HTTP 503, API error 901) is not retried: the call makes one transmission,
\* emits no resend diagnostic, and throws the error of its first attempt.
C33_NoResendWhenZero ==
  waitTimeResend = 0 =>
    /\ nSent <= 1
    /\ rqRetry = 0
    /\ retryEvents = 0
    /\ rqPc # "resendWait"
    /\ (lastErr # NoError /\ RetryEligible(lastErr)) =>
          (rqPc = "thrown" /\ firstErr = lastErr)

\* with waitTimeResend = 0, a call whose first attempt failed with API error
\* 901 has thrown that error
C33_Witness ==
  /\ waitTimeResend = 0
  /\ rqPc = "thrown"
  /\ nSent = 1
  /\ lastErr = ApiError(901)
(***************************************************************************)
(* Claims about getApiKey (KeySpec).                                       *)
(***************************************************************************)
\* getApiKey has thrown after its POST: the API key is the one from before
\* the call and the v1 base path is /api/<that key> (/api without a key)
KeyRestored ==
  /\ apiKey = savedKey
  /\ optionsPath = IF savedKey \in {"undefined", "null"}
                     THEN <<"/", "api">>
                     ELSE <<"/", "api", "/", savedKey>>

\* getApiKey has returned: the API key, the v1 base path and the
\* application-key header carry the key it returned, a newly issued key
KeyIssued ==
  /\ keyResult \notin {"undefined", "null"}
  /\ apiKey = keyResult
  /\ optionsPath = <<"/", "api", "/", keyResult>>
  /\ headers = keyResult

\* C34: when getApiKey fails (the POST fails or returns a critical error) the
\* API key is restored to its value from before the call and the v1 base
\* path is again /api/<that key>; when it succeeds, the API key, the base
\* path and the application-key header all carry the newly issued key.
C34_KeyRestoredOrIssued ==
  /\ keyPc = "thrown" => KeyRestored
  /\ keyPc = "returned" => KeyIssued

\* the failure half of C34 alone
C34_FailureRestores == keyPc = "thrown" => KeyRestored

\* the success half of C34 for an answer that carries a username
C34_UsernameIssued ==
  (keyPc = "returned" /\ "username" \in DOMAIN envelope.success) => KeyIssued
(***************************************************************************)
(* Claims about entries without id_v1 (PairSpec).                          *)
(***************************************************************************)
\* the events emitted for entry j of the update of PairSpec
EventsOfEntry(name, j) ==
  SelectSeq(esEvents, LAMBDA e : e.name = name /\ e.src[3] = j)

\* the entries of the update of PairSpec
PairEntries == received[3].c[1].data

\* C35: in version 1 an entry of an update that has no id_v1 yields no
\* 'changed' event and exactly one 'notification', whatever its other fields
\* (status included); no error is raised and the entries that follow it in
\* the frame are decoded.
C35_NoIdEntryNotified ==
  (version = 1 /\ Handled) =>
    \A j \in 1 .. Len(PairEntries) :
      IF HasKey(PairEntries[j], "id_v1")
        THEN ResourcesOf(EventsOfEntry("changed", j))
               = << <<"/", "lights", "/", "1", "/", "state">> >>
        ELSE /\ EventsOfEntry("changed", j) = <<>>
             /\ Len(EventsOfEntry("notification", j)) = 1
             /\ EventsNamed("error") = <<>>

\* the same, for entries without status and without button
C35_WithoutStatus ==
  (/\ version = 1 /\ Handled
   /\ \A j \in 1 .. Len(PairEntries) :
        ~HasKey(PairEntries[j], "status") /\ ~HasKey(PairEntries[j], "button"))
  => C35_NoIdEntryNotified
=============================================================================
